---------------------------- MODULE Spec2Model ----------------------------
(***************************************************************************)
(* A model of the UT Course Advisor (src/app_for_demo.py): the jailbreak   *)
(* guard, the follow-up heuristic, the ChromaDB where-filter compiler, the *)
(* context/card builders and the Streamlit chat turn with its session      *)
(* state.                                                                  *)
(*                                                                         *)
(* Texts are sequences of one-character strings, so that len(), lower(),   *)
(* split(), the `in` substring test and the regular expressions are        *)
(* computed character by character as Python computes them.               *)
(***************************************************************************)
EXTENDS Integers, Sequences, FiniteSets, TLC

VARIABLES
    \* --- session state (st.session_state) ---
    messages,        \* chat history: sequence of [role, content]
    last_context,    \* context block of the most recent search with hits ("" = <<>>)
    last_cards_html, \* course cards of the most recent search with hits ("" = <<>>)
    api_key_valid,   \* "None", "True" or "False"
    api_key_tested,  \* last 8 characters of the key that was validated
    total_in,        \* cumulative input tokens
    total_out,       \* cumulative output tokens
    \* --- sidebar widgets ---
    api_key,         \* the key typed into the sidebar
    _semester_val,   \* the selected semester, <<>> for "Any"
    _teach_lang_val, \* the selected teaching language, <<>> for "Any"
    _level_val,      \* the selected study level, <<>> for "Any"
    eap_min,         \* lower end of the credit slider
    eap_max,         \* upper end of the credit slider
    \* --- the script run that handles one chat turn ---
    pc,              \* where the run stands: "idle" between runs
    prompt,          \* the submitted utterance
    do_search,       \* <<>> until decided, then <<TRUE>> (fresh search) or <<FALSE>> (follow-up)
    results,         \* hits returned by collection.query, in the backend's order
    search_err,      \* <<>> for None, <<str(exc)>> when collection.query raised
    new_cards_html,  \* cards rendered in this run
    llm_messages,    \* the message list sent to the completion backend
    input_token_estimate,
    collected_chunks,\* fragments received from the stream so far
    trace,           \* the guard and the external calls of this run, in order
    exc,             \* <<>>, or <<e>> for the exception e the completion call or its stream raised
    searched_context,\* context built by the latest search with hits since start or clear
    validated,       \* fingerprints validated since start or clear and not reported invalid since
    \* --- the pure functions applied to inputs ---
    inText,          \* input of the text functions: a text descriptor
    guardOut,        \* result of is_jailbreak(text): <<>> before the call, then <<flagged, reason>>
    followOut,       \* result of is_followup(text): <<>> before the call, then <<bool>>
    whereOut,        \* result of build_where_filter(eap_min, eap_max)
    langOut,         \* result of _lang_or_clause(_teach_lang_val)
    hitsIn,          \* input of the card and context builders: a hit list
    cardsOut,        \* result of render_course_cards: <<>> before the call, then <<cards>>
    contextOut,      \* result of build_context: <<>> before the call, then <<context>>
    targetIn,        \* input of the facet clause compilers: a component value
    levelOut,        \* result of _level_or_clause(targetIn)
    costOut          \* result of estimate_cost(total_in, total_out): <<>> before the call

sessVars    == <<messages, last_context, last_cards_html, api_key_valid, api_key_tested,
                 total_in, total_out>>
sidebarVars == <<_semester_val, _teach_lang_val, _level_val, eap_min, eap_max>>
turnVars    == <<pc, prompt, do_search, results, search_err, new_cards_html, llm_messages,
                 input_token_estimate, collected_chunks, trace, exc, searched_context,
                 validated>>
textVars    == <<inText, guardOut, followOut>>
filterVars  == <<whereOut, langOut>>
cardVars    == <<hitsIn, cardsOut, contextOut>>
clauseVars  == <<targetIn, levelOut>>
costVars    == <<costOut>>

vars == <<sessVars, api_key, sidebarVars, turnVars, textVars, filterVars, cardVars,
          clauseVars, costVars>>

-----------------------------------------------------------------------------
(* Configuration, app_for_demo.py lines 39-50 *)

MAX_QUERY_LEN == 1000
MAX_WORD_REPS == 15
FOLLOWUP_WORD_THRESHOLD == 6

-----------------------------------------------------------------------------
(* Characters and the str methods the program uses *)

LowerAlpha == <<"a","b","c","d","e","f","g","h","i","j","k","l","m","n","o","p","q","r","s","t","u","v","w","x","y","z">>
UpperAlpha == <<"A","B","C","D","E","F","G","H","I","J","K","L","M","N","O","P","Q","R","S","T","U","V","W","X","Y","Z">>
DigitChars == <<"0","1","2","3","4","5","6","7","8","9">>

Range(s) == {s[i] : i \in 1..Len(s)}

\* the characters Python's \s and str.split() treat as whitespace
Whitespace == {" ", "\t", "\n", "\r", "\f"}

\* the characters Python's \w matches: letters, digits and the underscore
WordChars == Range(LowerAlpha) \cup Range(UpperAlpha) \cup Range(DigitChars) \cup {"_"}

LowerOf == [c \in Range(UpperAlpha) |->
              LowerAlpha[CHOOSE i \in 1..26 : UpperAlpha[i] = c]]

UpperOf == [c \in Range(LowerAlpha) |->
              UpperAlpha[CHOOSE i \in 1..26 : LowerAlpha[i] = c]]

\* str.lower() / str.upper()
lower(s) == [i \in 1..Len(s) |-> IF s[i] \in DOMAIN LowerOf THEN LowerOf[s[i]] ELSE s[i]]
upper(s) == [i \in 1..Len(s) |-> IF s[i] \in DOMAIN UpperOf THEN UpperOf[s[i]] ELSE s[i]]

\* s[a..b] as a sequence (empty when a > b)
Slice(s, a, b) == [i \in 1..(b - a + 1) |-> s[a + i - 1]]

\* str.strip(): leading and trailing whitespace removed
strip(s) ==
    LET keep == {i \in 1..Len(s) : s[i] \notin Whitespace}
    IN  IF keep = {} THEN <<>>
        ELSE LET a == CHOOSE i \in keep : \A j \in keep : i <= j
                 b == CHOOSE i \in keep : \A j \in keep : i >= j
             IN  Slice(s, a, b)

\* the k-th smallest element of a set of numbers
Kth(S, k) == CHOOSE x \in S : Cardinality({y \in S : y < x}) = k - 1

\* re.findall(r"\S+", s): the maximal runs of non-whitespace, left to right
findall_nonspace(s) ==
    LET starts == {i \in 1..Len(s) : s[i] \notin Whitespace
                                       /\ (i = 1 \/ s[i - 1] \in Whitespace)}
        ends   == {i \in 1..Len(s) : s[i] \notin Whitespace
                                       /\ (i = Len(s) \/ s[i + 1] \in Whitespace)}
    IN  [k \in 1..Cardinality(starts) |-> Slice(s, Kth(starts, k), Kth(ends, k))]

\* str.split() without arguments: split on runs of whitespace, no empty strings
split(s) == findall_nonspace(s)

\* sep.join(tokens)
RECURSIVE Join(_, _)
Join(tokens, sep) ==
    IF tokens = <<>> THEN <<>>
    ELSE IF Len(tokens) = 1 THEN tokens[1]
    ELSE tokens[1] \o sep \o Join(Tail(tokens), sep)

\* `needle in hay` for two strings
Contains(hay, needle) ==
    \E i \in 1..(Len(hay) - Len(needle) + 1) :
        \A j \in 1..Len(needle) : hay[i + j - 1] = needle[j]

\* Counter(words).most_common(1)[0][1]: the largest number of occurrences of one word
MostCommonCount(words) ==
    LET n(w) == Cardinality({i \in 1..Len(words) : words[i] = w})
        counts == {n(words[i]) : i \in 1..Len(words)}
    IN  CHOOSE c \in counts : \A d \in counts : d <= c

-----------------------------------------------------------------------------
(* Regular expressions: the subset of re the blocklist uses, matched       *)
(* case-insensitively (re.IGNORECASE) by lowercasing pattern and text.     *)

Lit(s)  == [k |-> "lit", s |-> s,    alts |-> {}]   \* literal text
Opt(s)  == [k |-> "opt", s |-> s,    alts |-> {}]   \* (literal)?
Ws1     == [k |-> "ws1", s |-> <<>>, alts |-> {}]   \* \s+
Ws0     == [k |-> "ws0", s |-> <<>>, alts |-> {}]   \* \s*
Wb      == [k |-> "wb",  s |-> <<>>, alts |-> {}]   \* \b
Alt(as) == [k |-> "alt", s |-> <<>>, alts |-> as]   \* (p1|p2|...)

LitAt(text, i, s) ==
    /\ i + Len(s) - 1 <= Len(text)
    /\ \A j \in 1..Len(s) : text[i + j - 1] = s[j]

IsWordAt(text, i) == i >= 1 /\ i <= Len(text) /\ text[i] \in WordChars

\* positions after a run of whitespace that starts at i and has at least `least` characters
SpaceEnds(text, i, least) ==
    {j \in (i + least)..(Len(text) + 1) : \A m \in i..(j - 1) : text[m] \in Whitespace}

\* EndsFrom(pat, k, text, I): the positions where a match of pat[k..] can end when it
\* starts at one of the positions I
RECURSIVE EndsFrom(_, _, _, _)
RECURSIVE Step(_, _, _)
Step(e, text, i) ==
    CASE e.k = "lit" -> IF LitAt(text, i, e.s) THEN {i + Len(e.s)} ELSE {}
      [] e.k = "opt" -> {i} \cup (IF LitAt(text, i, e.s) THEN {i + Len(e.s)} ELSE {})
      [] e.k = "ws1" -> SpaceEnds(text, i, 1)
      [] e.k = "ws0" -> SpaceEnds(text, i, 0)
      [] e.k = "wb"  -> IF IsWordAt(text, i - 1) # IsWordAt(text, i) THEN {i} ELSE {}
      [] e.k = "alt" -> UNION {EndsFrom(a, 1, text, {i}) : a \in e.alts}

EndsFrom(pat, k, text, I) ==
    IF k > Len(pat) \/ I = {} THEN I
    ELSE EndsFrom(pat, k + 1, text, UNION {Step(pat[k], text, i) : i \in I})

_JAILBREAK_PATTERNS == <<
    <<Lit(<<"i","g","n","o","r","e">>), Ws1, Alt({<<Lit(<<"p","r","e","v","i","o","u","s">>)>>, <<Lit(<<"a","l","l">>)>>, <<Lit(<<"p","r","i","o","r">>)>>, <<Lit(<<"a","b","o","v","e">>)>>}),
      Ws1, Lit(<<"i","n","s","t","r","u","c","t","i","o","n">>), Opt(<<"s">>)>>,
    <<Lit(<<"f","o","r","g","e","t">>), Ws1, Alt({<<Lit(<<"y","o","u","r">>)>>, <<Lit(<<"a","l","l">>)>>, <<Lit(<<"t","h","e">>)>>}),
      Ws1, Lit(<<"i","n","s","t","r","u","c","t","i","o","n">>), Opt(<<"s">>)>>,
    <<Lit(<<"y","o","u">>), Ws1, Lit(<<"a","r","e">>), Ws1, Lit(<<"n","o","w">>), Wb>>,
    <<Wb, Lit(<<"a","c","t">>), Ws1, Lit(<<"a","s">>), Wb>>,
    <<Lit(<<"p","r","e","t","e","n","d">>), Ws1, Alt({<<Lit(<<"y","o","u">>), Ws1, Lit(<<"a","r","e">>)>>, <<Lit(<<"t","o">>), Ws1, Lit(<<"b","e">>)>>})>>,
    <<Wb, Lit(<<"d","a","n">>), Wb>>,
    <<Wb, Lit(<<"d","i","s","r","e","g","a","r","d">>), Wb>>,
    <<Wb, Lit(<<"o","v","e","r","r","i","d","e">>), Wb>>,
    <<Lit(<<"s","y","s","t","e","m">>), Ws0, Lit(<<"p","r","o","m","p","t">>)>>,
    <<Wb, Lit(<<"j","a","i","l","b","r","e","a","k">>), Wb>>,
    <<Wb, Lit(<<"b","y","p","a","s","s">>), Wb>>,
    <<Lit(<<"d","o">>), Ws1, Lit(<<"a","n","y","t","h","i","n","g">>), Ws1, Lit(<<"n","o","w">>)>>,
    <<Lit(<<"n","o">>), Ws1, Lit(<<"r","e","s","t","r","i","c","t","i","o","n","s">>)>>,
    <<Lit(<<"u","n","l","i","m","i","t","e","d">>), Ws1, Alt({<<Lit(<<"p","o","w","e","r">>)>>, <<Lit(<<"a","c","c","e","s","s">>)>>, <<Lit(<<"m","o","d","e">>)>>})>>,
    <<Lit(<<"n","e","w">>), Ws1, Lit(<<"p","e","r","s","o","n","a">>)>>,
    <<Lit(<<"r","o","l","e","p","l","a","y">>), Ws1, Lit(<<"a","s">>)>>,
    <<Lit(<<"r","e","s","p","o","n","d">>), Ws1, Lit(<<"a","s">>), Ws1, Alt({<<Lit(<<"i","f">>)>>, <<Lit(<<"t","h","o","u","g","h">>)>>})>>,
    <<Lit(<<"h","y","p","o","t","h","e","t","i","c","a","l","l","y">>), Ws1, Lit(<<"s","p","e","a","k","i","n","g">>)>>,
    <<Lit(<<"i","n">>), Ws1, Alt({<<Lit(<<"t","h","i","s">>)>>, <<Lit(<<"a">>)>>}), Ws1, Lit(<<"f","i","c","t","i","o","n","a","l">>), Ws1,
      Alt({<<Lit(<<"w","o","r","l","d">>)>>, <<Lit(<<"s","c","e","n","a","r","i","o">>)>>})>>,
    <<Lit(<<"d","e","v","e","l","o","p","e","r">>), Ws1, Lit(<<"m","o","d","e">>)>>,
    <<Lit(<<"p","r","o","m","p","t">>), Ws1, Lit(<<"i","n","j","e","c","t","i","o","n">>)>>,
    <<Lit(<<"i","g","n","o","r","e">>), Ws1, Lit(<<"s","a","f","e","t","y">>)>>
>>

\* re.compile("|".join(patterns), flags=re.IGNORECASE).search(text) is not None,
\* with case folded on the text (the patterns above are written in lower case)
SearchFolded(text) ==
    \E i \in 1..(Len(text) + 1) :
        \E p \in 1..Len(_JAILBREAK_PATTERNS) :
            EndsFrom(_JAILBREAK_PATTERNS[p], 1, text, {i}) # {}

_JAILBREAK_RE_search(text) == SearchFolded(lower(text))

-----------------------------------------------------------------------------
(* is_jailbreak: length -> blocklist -> repetition flood *)

\* the blocklist consulted before the length
is_jailbreak_PatternFirst(text) ==
    IF _JAILBREAK_RE_search(text) THEN <<TRUE, "pattern">>
    ELSE IF Len(text) > MAX_QUERY_LEN THEN <<TRUE, "length">>
    ELSE LET words == findall_nonspace(lower(text))
         IN  IF words # <<>> /\ MostCommonCount(words) > MAX_WORD_REPS
             THEN <<TRUE, "repetition">>
             ELSE <<FALSE, "">>

\* the blocklist searched without re.IGNORECASE
is_jailbreak_CaseSensitive(text) ==
    IF Len(text) > MAX_QUERY_LEN THEN <<TRUE, "length">>
    ELSE IF SearchFolded(text) THEN <<TRUE, "pattern">>
    ELSE LET words == findall_nonspace(lower(text))
         IN  IF words # <<>> /\ MostCommonCount(words) > MAX_WORD_REPS
             THEN <<TRUE, "repetition">>
             ELSE <<FALSE, "">>

\* the flood test with >= in place of >
is_jailbreak_RepsInclusive(text) ==
    IF Len(text) > MAX_QUERY_LEN THEN <<TRUE, "length">>
    ELSE IF _JAILBREAK_RE_search(text) THEN <<TRUE, "pattern">>
    ELSE LET words == findall_nonspace(lower(text))
         IN  IF words # <<>> /\ MostCommonCount(words) >= MAX_WORD_REPS
             THEN <<TRUE, "repetition">>
             ELSE <<FALSE, "">>

is_jailbreak(text) ==
    IF Len(text) > MAX_QUERY_LEN THEN <<TRUE, "length">>
    ELSE IF _JAILBREAK_RE_search(text) THEN <<TRUE, "pattern">>
    ELSE LET words == findall_nonspace(lower(text))
         IN  IF words # <<>> /\ MostCommonCount(words) > MAX_WORD_REPS
             THEN <<TRUE, "repetition">>
             ELSE <<FALSE, "">>

-----------------------------------------------------------------------------
(* is_followup *)

\* the word count compared with <= in place of <
is_followup_Inclusive(text) ==
    IF last_context = <<>> THEN FALSE
    ELSE Len(split(strip(text))) <= FOLLOWUP_WORD_THRESHOLD

is_followup(text) ==
    IF last_context = <<>> THEN FALSE
    ELSE Len(split(strip(text))) < FOLLOWUP_WORD_THRESHOLD

-----------------------------------------------------------------------------
(* Filter expressions: ChromaDB where-documents.  {"f": {"$op": v}} is a leaf,   *)
(* {"$and": [...]} and {"$or": [...]} are nodes, Python's None is NoFilter.      *)

Leaf(field, op, value) == [op |-> op, field |-> field, value |-> value, args |-> <<>>]
Node(op, args)         == [op |-> op, field |-> "",    value |-> <<>>,  args |-> args]
NoFilter               == [op |-> "None",   field |-> "", value |-> <<>>, args |-> <<>>]
NotRun                 == [op |-> "notrun", field |-> "", value |-> <<>>, args |-> <<>>]

\* the options of the sidebar select boxes (<<>> stands for "Any": dict.get gives None)
SemesterOptions == {<<>>, <<"s","p","r","i","n","g">>, <<"a","u","t","u","m","n">>}
LangOptions     == {<<>>, <<"E","s","t","o","n","i","a","n">>, <<"E","n","g","l","i","s","h">>, <<"R","u","s","s","i","a","n">>}
LevelOptions    == {<<>>, <<"b","a","c","h","e","l","o","r","'","s"," ","s","t","u","d","i","e","s">>, <<"m","a","s","t","e","r","'","s"," ","s","t","u","d","i","e","s">>, <<"d","o","c","t","o","r","a","l"," ","s","t","u","d","i","e","s">>}

\* the ends of the credit slider
EAP_SLIDER_MIN == 1
EAP_SLIDER_MAX == 36

_ALL_LANG_VALUES == <<
    <<"D","a","n","i","s","h">>,
    <<"E","n","g","l","i","s","h">>,
    <<"E","n","g","l","i","s","h",","," ","E","s","t","o","n","i","a","n">>,
    <<"E","n","g","l","i","s","h",","," ","E","s","t","o","n","i","a","n",","," ","F","r","e","n","c","h">>,
    <<"E","n","g","l","i","s","h",","," ","S","p","a","n","i","s","h">>,
    <<"E","s","t","o","n","i","a","n">>,
    <<"E","s","t","o","n","i","a","n",","," ","E","n","g","l","i","s","h">>,
    <<"E","s","t","o","n","i","a","n",","," ","F","i","n","n","i","s","h">>,
    <<"E","s","t","o","n","i","a","n",","," ","F","r","e","n","c","h">>,
    <<"E","s","t","o","n","i","a","n",","," ","G","e","r","m","a","n">>,
    <<"E","s","t","o","n","i","a","n",","," ","L","a","t","i","n">>,
    <<"E","s","t","o","n","i","a","n",","," ","N","o","r","w","e","g","i","a","n">>,
    <<"E","s","t","o","n","i","a","n",","," ","N","o","r","w","e","g","i","a","n",","," ","S","w","e","d","i","s","h",","," ","D","a","n","i","s","h">>,
    <<"E","s","t","o","n","i","a","n",","," ","O","l","d"," ","G","r","e","e","k">>,
    <<"E","s","t","o","n","i","a","n",","," ","R","u","s","s","i","a","n">>,
    <<"E","s","t","o","n","i","a","n",","," ","S","e","t","o">>,
    <<"E","s","t","o","n","i","a","n",","," ","S","p","a","n","i","s","h">>,
    <<"F","i","n","n","i","s","h">>,
    <<"F","i","n","n","i","s","h",","," ","E","s","t","o","n","i","a","n">>,
    <<"F","r","e","n","c","h">>,
    <<"F","r","e","n","c","h",","," ","E","s","t","o","n","i","a","n">>,
    <<"G","e","r","m","a","n">>,
    <<"L","a","t","i","n">>,
    <<"N","o","r","w","e","g","i","a","n">>,
    <<"N","o","r","w","e","g","i","a","n",","," ","D","a","n","i","s","h">>,
    <<"N","o","r","w","e","g","i","a","n",","," ","S","w","e","d","i","s","h",","," ","D","a","n","i","s","h">>,
    <<"R","u","s","s","i","a","n">>,
    <<"S","p","a","n","i","s","h">>,
    <<"S","p","a","n","i","s","h",","," ","E","s","t","o","n","i","a","n">>,
    <<"S","w","e","d","i","s","h">>,
    <<"V","õ","r","o"," ","l","a","n","g","u","a","g","e">>,
    <<"V","õ","r","o"," ","l","a","n","g","u","a","g","e",","," ","E","s","t","o","n","i","a","n">>
>>

_ALL_LEVEL_VALUES == <<
    <<"b","a","c","h","e","l","o","r","'","s"," ","s","t","u","d","i","e","s">>,
    <<"b","a","c","h","e","l","o","r","'","s"," ","s","t","u","d","i","e","s",","," ","i","n","t","e","g","r","a","t","e","d"," ","b","a","c","h","e","l","o","r","'","s"," ","a","n","d"," ","m","a","s","t","e","r","'","s"," ","s","t","u","d","i","e","s">>,
    <<"b","a","c","h","e","l","o","r","'","s"," ","s","t","u","d","i","e","s",","," ","m","a","s","t","e","r","'","s"," ","s","t","u","d","i","e","s">>,
    <<"b","a","c","h","e","l","o","r","'","s"," ","s","t","u","d","i","e","s",","," ","m","a","s","t","e","r","'","s"," ","s","t","u","d","i","e","s",","," ","d","o","c","t","o","r","a","l"," ","s","t","u","d","i","e","s">>,
    <<"b","a","c","h","e","l","o","r","'","s"," ","s","t","u","d","i","e","s",","," ","m","a","s","t","e","r","'","s"," ","s","t","u","d","i","e","s",","," ","d","o","c","t","o","r","a","l"," ","s","t","u","d","i","e","s",","," ","i","n","t","e","g","r","a","t","e","d"," ","b","a","c","h","e","l","o","r","'","s"," ","a","n","d"," ","m","a","s","t","e","r","'","s"," ","s","t","u","d","i","e","s">>,
    <<"b","a","c","h","e","l","o","r","'","s"," ","s","t","u","d","i","e","s",","," ","m","a","s","t","e","r","'","s"," ","s","t","u","d","i","e","s",","," ","d","o","c","t","o","r","a","l"," ","s","t","u","d","i","e","s",","," ","p","r","o","f","e","s","s","i","o","n","a","l"," ","h","i","g","h","e","r"," ","e","d","u","c","a","t","i","o","n"," ","s","t","u","d","i","e","s">>,
    <<"b","a","c","h","e","l","o","r","'","s"," ","s","t","u","d","i","e","s",","," ","m","a","s","t","e","r","'","s"," ","s","t","u","d","i","e","s",","," ","d","o","c","t","o","r","a","l"," ","s","t","u","d","i","e","s",","," ","p","r","o","f","e","s","s","i","o","n","a","l"," ","h","i","g","h","e","r"," ","e","d","u","c","a","t","i","o","n"," ","s","t","u","d","i","e","s",","," ","i","n","t","e","g","r","a","t","e","d"," ","b","a","c","h","e","l","o","r","'","s"," ","a","n","d"," ","m","a","s","t","e","r","'","s"," ","s","t","u","d","i","e","s">>,
    <<"b","a","c","h","e","l","o","r","'","s"," ","s","t","u","d","i","e","s",","," ","m","a","s","t","e","r","'","s"," ","s","t","u","d","i","e","s",","," ","i","n","t","e","g","r","a","t","e","d"," ","b","a","c","h","e","l","o","r","'","s"," ","a","n","d"," ","m","a","s","t","e","r","'","s"," ","s","t","u","d","i","e","s">>,
    <<"b","a","c","h","e","l","o","r","'","s"," ","s","t","u","d","i","e","s",","," ","m","a","s","t","e","r","'","s"," ","s","t","u","d","i","e","s",","," ","p","r","o","f","e","s","s","i","o","n","a","l"," ","h","i","g","h","e","r"," ","e","d","u","c","a","t","i","o","n"," ","s","t","u","d","i","e","s">>,
    <<"b","a","c","h","e","l","o","r","'","s"," ","s","t","u","d","i","e","s",","," ","m","a","s","t","e","r","'","s"," ","s","t","u","d","i","e","s",","," ","p","r","o","f","e","s","s","i","o","n","a","l"," ","h","i","g","h","e","r"," ","e","d","u","c","a","t","i","o","n"," ","s","t","u","d","i","e","s",","," ","i","n","t","e","g","r","a","t","e","d"," ","b","a","c","h","e","l","o","r","'","s"," ","a","n","d"," ","m","a","s","t","e","r","'","s"," ","s","t","u","d","i","e","s">>,
    <<"b","a","c","h","e","l","o","r","'","s"," ","s","t","u","d","i","e","s",","," ","p","r","o","f","e","s","s","i","o","n","a","l"," ","h","i","g","h","e","r"," ","e","d","u","c","a","t","i","o","n"," ","s","t","u","d","i","e","s">>,
    <<"b","a","c","h","e","l","o","r","'","s"," ","s","t","u","d","i","e","s",","," ","p","r","o","f","e","s","s","i","o","n","a","l"," ","h","i","g","h","e","r"," ","e","d","u","c","a","t","i","o","n"," ","s","t","u","d","i","e","s",","," ","i","n","t","e","g","r","a","t","e","d"," ","b","a","c","h","e","l","o","r","'","s"," ","a","n","d"," ","m","a","s","t","e","r","'","s"," ","s","t","u","d","i","e","s">>,
    <<"d","o","c","t","o","r","a","l"," ","s","t","u","d","i","e","s">>,
    <<"d","o","c","t","o","r","a","l"," ","s","t","u","d","i","e","s",","," ","i","n","t","e","g","r","a","t","e","d"," ","b","a","c","h","e","l","o","r","'","s"," ","a","n","d"," ","m","a","s","t","e","r","'","s"," ","s","t","u","d","i","e","s">>,
    <<"i","n","t","e","g","r","a","t","e","d"," ","b","a","c","h","e","l","o","r","'","s"," ","a","n","d"," ","m","a","s","t","e","r","'","s"," ","s","t","u","d","i","e","s">>,
    <<"m","a","s","t","e","r","'","s"," ","s","t","u","d","i","e","s">>,
    <<"m","a","s","t","e","r","'","s"," ","s","t","u","d","i","e","s",","," ","d","o","c","t","o","r","a","l"," ","s","t","u","d","i","e","s">>,
    <<"m","a","s","t","e","r","'","s"," ","s","t","u","d","i","e","s",","," ","d","o","c","t","o","r","a","l"," ","s","t","u","d","i","e","s",","," ","i","n","t","e","g","r","a","t","e","d"," ","b","a","c","h","e","l","o","r","'","s"," ","a","n","d"," ","m","a","s","t","e","r","'","s"," ","s","t","u","d","i","e","s">>,
    <<"m","a","s","t","e","r","'","s"," ","s","t","u","d","i","e","s",","," ","i","n","t","e","g","r","a","t","e","d"," ","b","a","c","h","e","l","o","r","'","s"," ","a","n","d"," ","m","a","s","t","e","r","'","s"," ","s","t","u","d","i","e","s">>,
    <<"m","a","s","t","e","r","'","s"," ","s","t","u","d","i","e","s",","," ","p","r","o","f","e","s","s","i","o","n","a","l"," ","h","i","g","h","e","r"," ","e","d","u","c","a","t","i","o","n"," ","s","t","u","d","i","e","s">>,
    <<"m","a","s","t","e","r","'","s"," ","s","t","u","d","i","e","s",","," ","p","r","o","f","e","s","s","i","o","n","a","l"," ","h","i","g","h","e","r"," ","e","d","u","c","a","t","i","o","n"," ","s","t","u","d","i","e","s",","," ","i","n","t","e","g","r","a","t","e","d"," ","b","a","c","h","e","l","o","r","'","s"," ","a","n","d"," ","m","a","s","t","e","r","'","s"," ","s","t","u","d","i","e","s">>,
    <<"p","r","o","f","e","s","s","i","o","n","a","l"," ","h","i","g","h","e","r"," ","e","d","u","c","a","t","i","o","n"," ","s","t","u","d","i","e","s">>,
    <<"p","r","o","f","e","s","s","i","o","n","a","l"," ","h","i","g","h","e","r"," ","e","d","u","c","a","t","i","o","n"," ","s","t","u","d","i","e","s",","," ","i","n","t","e","g","r","a","t","e","d"," ","b","a","c","h","e","l","o","r","'","s"," ","a","n","d"," ","m","a","s","t","e","r","'","s"," ","s","t","u","d","i","e","s">>
>>

\* decimal digits of a natural number
RECURSIVE str_int(_)
str_int(n) == IF n < 10 THEN <<DigitChars[n + 1]>> ELSE str_int(n \div 10) \o <<DigitChars[(n % 10) + 1]>>

\* str(float(n)) for a whole number n: "3.0"
str_float(n) == str_int(n) \o <<".","0">>

\* [v for v in values if target in v]
ValuesContaining(values, target) ==
    LET Has(v) == Contains(v, target)
    IN  SelectSeq(values, Has)

\* [v for v in values if v.startswith(target)]
ValuesStartingWith(values, target) ==
    LET Has(v) == Len(v) >= Len(target) /\ Slice(v, 1, Len(target)) = target
    IN  SelectSeq(values, Has)

OrClause(field, matches) ==
    IF Len(matches) = 1 THEN Leaf(field, "$eq", matches[1])
    ELSE Node("$or", [i \in 1..Len(matches) |-> Leaf(field, "$eq", matches[i])])

\* the values selected by prefix instead of by `in`
_lang_or_clause_Prefix(target) ==
    OrClause("study_languages_en", ValuesStartingWith(_ALL_LANG_VALUES, target))

_lang_or_clause(target) ==
    OrClause("study_languages_en", ValuesContaining(_ALL_LANG_VALUES, target))

_level_or_clause(target) ==
    OrClause("study_levels_en", ValuesContaining(_ALL_LEVEL_VALUES, target))

\* the clause list of build_where_filter, before it is wrapped
WhereClauses(eap_lo, eap_hi) ==
    (IF _semester_val # <<>> THEN <<Leaf("semester", "$eq", _semester_val)>> ELSE <<>>)
    \o (IF _teach_lang_val # <<>> THEN <<_lang_or_clause(_teach_lang_val)>> ELSE <<>>)
    \o (IF _level_val # <<>> THEN <<_level_or_clause(_level_val)>> ELSE <<>>)
    \o (IF eap_lo > EAP_SLIDER_MIN \/ eap_hi < EAP_SLIDER_MAX
        THEN <<Leaf("eap", "$gte", str_float(eap_lo)), Leaf("eap", "$lte", str_float(eap_hi))>>
        ELSE <<>>)

\* every non-empty clause list wrapped in $and, a single clause too
build_where_filter_AlwaysWrap(eap_lo, eap_hi) ==
    LET clauses == WhereClauses(eap_lo, eap_hi)
    IN  IF Len(clauses) >= 1 THEN Node("$and", clauses) ELSE NoFilter

\* the range clauses emitted when either end differs from the other end's default
build_where_filter_RangeAlways(eap_lo, eap_hi) ==
    LET clauses == WhereClauses(eap_lo, eap_hi)
                     \o (IF eap_lo = EAP_SLIDER_MIN /\ eap_hi = EAP_SLIDER_MAX
                         THEN <<Leaf("eap", "$gte", str_float(eap_lo)),
                                Leaf("eap", "$lte", str_float(eap_hi))>>
                         ELSE <<>>)
    IN  IF Len(clauses) > 1 THEN Node("$and", clauses)
        ELSE IF Len(clauses) = 1 THEN clauses[1]
        ELSE NoFilter

build_where_filter(eap_lo, eap_hi) ==
    LET clauses == WhereClauses(eap_lo, eap_hi)
    IN  IF Len(clauses) > 1 THEN Node("$and", clauses)
        ELSE IF Len(clauses) = 1 THEN clauses[1]
        ELSE NoFilter

\* What collection.query accepts as a where-document: the code hands a single clause over
\* bare and wraps clauses in $and / $or only when there are several, because the backend
\* takes these operators with two or more expressions only and raises otherwise.
RECURSIVE ValidWhere(_)
ValidWhere(f) ==
    IF f.op \in {"$and", "$or"}
    THEN Len(f.args) > 1 /\ \A i \in 1..Len(f.args) : ValidWhere(f.args[i])
    ELSE TRUE

\* the place of a character of a number string in character order: "." comes before "0"
CharRank(c) == IF c = "." THEN 0 ELSE 1 + (CHOOSE d \in 0..9 : DigitChars[d + 1] = c)

\* a <= b for two strings, as strings compare: character by character, a prefix first
RECURSIVE StrLe(_, _)
StrLe(a, b) ==
    IF a = <<>> THEN TRUE
    ELSE IF b = <<>> THEN FALSE
    ELSE IF a[1] = b[1] THEN StrLe(Tail(a), Tail(b))
    ELSE CharRank(a[1]) < CharRank(b[1])

\* The backend's reading of a where-document on one metadata record (a function from
\* field names to strings): $eq is exact string equality, $and / $or combine clauses.
\* The operands of $gte / $lte are the strings str(float(eap_lo)) and str(float(eap_hi)) and
\* the stored eap is a string as well, so what is compared is two strings.
RECURSIVE MatchesRecord(_, _)
MatchesRecord(f, rec) ==
    CASE f.op = "None" -> TRUE
      [] f.op = "$eq"  -> rec[f.field] = f.value
      [] f.op = "$gte" -> StrLe(f.value, rec[f.field])
      [] f.op = "$lte" -> StrLe(rec[f.field], f.value)
      [] f.op = "$and" -> \A i \in 1..Len(f.args) : MatchesRecord(f.args[i], rec)
      [] f.op = "$or"  -> \E i \in 1..Len(f.args) : MatchesRecord(f.args[i], rec)

-----------------------------------------------------------------------------
(* Retrieved records, course cards and the context block *)

DESC_SNIPPET == 450

\* Distances and similarity scores are fixed-point numbers in thousandths: DistUnit is 1.0.
DistUnit == 1000

Min(a, b) == IF a <= b THEN a ELSE b
Max(a, b) == IF a >= b THEN a ELSE b

\* s[:n]
Prefix(s, n) == Slice(s, 1, Min(Len(s), n))

\* a or b, for strings
OrElse(a, b) == IF a # <<>> THEN a ELSE b

\* f"{x:.0%}" for x in thousandths: the percentage rounded to a whole number, halves to even
percent0(x) ==
    LET q == x \div 10
        r == x % 10
    IN  IF r > 5 \/ (r = 5 /\ q % 2 = 1) THEN q + 1 ELSE q

\* A hit is one position of the three parallel lists collection.query returns:
\* [meta |-> metadata record, dist |-> distance, doc |-> document text].

\* similarity = 1.0 - dist
similarity(dist) == DistUnit - dist

\* enumerate(zip(metadatas, distances), 1), sorted by similarity before the cards are made
render_course_cards_Sorted(hits) ==
    LET sorted == [k \in 1..Len(hits) |->
                      hits[CHOOSE i \in 1..Len(hits) :
                              Cardinality({j \in 1..Len(hits) :
                                  hits[j].dist < hits[i].dist
                                    \/ (hits[j].dist = hits[i].dist /\ j < i)}) = k - 1]]
    IN  [rank \in 1..Len(sorted) |->
            LET meta == sorted[rank].meta
            IN  [rank          |-> rank,
                 percent       |-> percent0(similarity(sorted[rank].dist)),
                 display_title |-> OrElse(meta.title_en, OrElse(meta.title_et, meta.code)),
                 alt           |-> IF meta.title_et # <<>> /\ meta.title_en # <<>>
                                      /\ meta.title_et # meta.title_en
                                   THEN meta.title_et ELSE <<>>,
                 ois_url       |-> <<"h","t","t","p","s",":","/","/","o","i","s","2",".","u","t",".","e","e","/","a","i","n","e","k","a","v","a","/">> \o meta.code,
                 code          |-> meta.code,
                 eap           |-> meta.eap,
                 sem           |-> meta.semester,
                 langs         |-> meta.study_languages_en,
                 levels        |-> meta.study_levels_en]]

\* The HTML of the cards is the sequence of its cards ("\n".join(cards)); a card is given by
\* the values interpolated into its markup.  "" is the empty sequence.
render_course_cards(hits) ==
    [rank \in 1..Len(hits) |->
        LET meta == hits[rank].meta
        IN  [rank          |-> rank,
             percent       |-> percent0(similarity(hits[rank].dist)),
             display_title |-> OrElse(meta.title_en, OrElse(meta.title_et, meta.code)),
             alt           |-> IF meta.title_et # <<>> /\ meta.title_en # <<>>
                                  /\ meta.title_et # meta.title_en
                               THEN meta.title_et ELSE <<>>,
             ois_url       |-> <<"h","t","t","p","s",":","/","/","o","i","s","2",".","u","t",".","e","e","/","a","i","n","e","k","a","v","a","/">> \o meta.code,
             code          |-> meta.code,
             eap           |-> meta.eap,
             sem           |-> meta.semester,
             langs         |-> meta.study_languages_en,
             levels        |-> meta.study_levels_en]]

\* the document fallback taken whole, without the [:DESC_SNIPPET] slice
Snippet_DocUncut(meta, doc) ==
    LET usable(v) == v # <<>> /\ v # <<"n","a","n">>
        desc == IF usable(meta.description_en) THEN Prefix(meta.description_en, DESC_SNIPPET)
                ELSE IF usable(meta.description_et) THEN Prefix(meta.description_et, DESC_SNIPPET)
                ELSE <<>>
    IN  IF desc = <<>> /\ doc # <<>> THEN doc ELSE desc

\* the description snippet of one record: English, then Estonian, then the document
Snippet(meta, doc) ==
    LET usable(v) == v # <<>> /\ v # <<"n","a","n">>
        desc == IF usable(meta.description_en) THEN Prefix(meta.description_en, DESC_SNIPPET)
                ELSE IF usable(meta.description_et) THEN Prefix(meta.description_et, DESC_SNIPPET)
                ELSE <<>>
    IN  IF desc = <<>> /\ doc # <<>> THEN Prefix(doc, DESC_SNIPPET) ELSE desc

\* entries numbered from 0
build_context_ZeroBased(hits) ==
    [i \in 1..Len(hits) |->
        LET meta == hits[i].meta
        IN  [i      |-> i - 1,
             title  |-> OrElse(meta.title_en, meta.title_et),
             code   |-> meta.code,
             eap    |-> meta.eap,
             sem    |-> meta.semester,
             langs  |-> meta.study_languages_en,
             levels |-> meta.study_levels_en,
             desc   |-> Snippet(meta, hits[i].doc)]]

\* The context block is the sequence of its entries ("\n\n".join(lines)); an entry is given
\* by the values interpolated into its three lines.  "" is the empty sequence.
build_context(hits) ==
    [i \in 1..Len(hits) |->
        LET meta == hits[i].meta
        IN  [i      |-> i,
             title  |-> OrElse(meta.title_en, meta.title_et),
             code   |-> meta.code,
             eap    |-> meta.eap,
             sem    |-> meta.semester,
             langs  |-> meta.study_languages_en,
             levels |-> meta.study_levels_en,
             desc   |-> Snippet(meta, hits[i].doc)]]

-----------------------------------------------------------------------------
(* Message contents.  A text the program formats is [tpl, text, ctx]: the   *)
(* fixed wording, the string interpolated into it and the context block     *)
(* interpolated into it.  The two language variants of a fixed reply are    *)
(* one text here: detect_language only picks the wording.                   *)

Plain(text)         == [tpl |-> "{}", text |-> text, ctx |-> <<>>]
Fixed(tpl)          == [tpl |-> tpl,  text |-> <<>>, ctx |-> <<>>]
Fmt(tpl, text)      == [tpl |-> tpl,  text |-> text, ctx |-> <<>>]
Fmt2(tpl, text, cx) == [tpl |-> tpl,  text |-> text, ctx |-> cx]

Msg(role, content) == [role |-> role, content |-> content]

WelcomeMsg == Msg("assistant", Fixed("welcome"))

SYSTEM_PROMPT == Fixed("SYSTEM_PROMPT")

\* count_tokens: tiktoken's encoding is not modelled; a text counts one token for its fixed
\* wording, one per interpolated character and one per context entry, so "" counts 0.
count_tokens(c) == (IF c.tpl = "{}" THEN 0 ELSE 1) + Len(c.text) + Len(c.ctx)

RECURSIVE SumTokens(_)
SumTokens(msgs) ==
    IF msgs = <<>> THEN 0 ELSE count_tokens(msgs[1].content) + SumTokens(Tail(msgs))

\* Prices are fixed-point numbers in hundredths of a dollar per million tokens: 0.10 and
\* 0.20. A cost is a whole number of CostUnit-th parts of a dollar, so that the division
\* by 1_000_000 loses nothing.
PRICE_IN_PER_M  == 10
PRICE_OUT_PER_M == 20
PerMillion      == 1000000
CostUnit        == 100 * PerMillion

\* the input rate applied to the output tokens and the output rate to the input tokens
estimate_cost_SwappedRates(in_tokens, out_tokens) ==
    in_tokens * PRICE_OUT_PER_M + out_tokens * PRICE_IN_PER_M

\* (in_tokens * PRICE_IN_PER_M + out_tokens * PRICE_OUT_PER_M) / 1_000_000, in CostUnit-ths
estimate_cost(in_tokens, out_tokens) ==
    in_tokens * PRICE_IN_PER_M + out_tokens * PRICE_OUT_PER_M

\* api_key[-8:]
last8(k) == Slice(k, Max(1, Len(k) - 7), Len(k))

-----------------------------------------------------------------------------
(* What the session is run with *)

MaxTurns  == 2     \* chat turns between two clears
MaxChunks == 1     \* fragments one completion stream delivers

\* utterances: a one-word follow-up, a six-word question, an override attempt
Prompts == {<<"y","e","s">>, <<"i"," ","w","a","n","t"," ","t","o"," ","l","e","a","r","n"," ","m","a","c","h","i","n","e"," ","l","e","a","r","n","i","n","g">>, <<"a","c","t"," ","a","s"," ","a"," ","p","i","r","a","t","e">>}

KeyGood == <<"s","k","-","o","r","-","v","1","-","g","o","o","d","0","0","0","1">>
KeyBad  == <<"s","k","-","o","r","-","v","1","-","b","a","d","0","0","0","0","2">>
Keys    == {KeyGood, KeyBad}

\* keys the OpenRouter backend accepts
AcceptedKeys == {KeyGood}

Course1 ==
    [code |-> <<"L","T","A","T",".","0","1">>, title_en |-> <<"M","a","c","h","i","n","e"," ","L","e","a","r","n","i","n","g">>, title_et |-> <<"M","a","s","i","n","o","p","e">>,
     eap |-> <<"6",".","0">>, semester |-> <<"s","p","r","i","n","g">>, study_languages_en |-> <<"E","n","g","l","i","s","h">>,
     study_levels_en |-> <<"m","a","s","t","e","r","'","s"," ","s","t","u","d","i","e","s">>, description_en |-> <<>>, description_et |-> <<>>]

Course2 ==
    [code |-> <<"L","T","A","T",".","0","2">>, title_en |-> <<>>, title_et |-> <<"T","e","h","i","s","i","n","t","e","l","l","e","k","t">>,
     eap |-> <<"3",".","0">>, semester |-> <<"a","u","t","u","m","n">>, study_languages_en |-> <<"E","s","t","o","n","i","a","n",","," ","E","n","g","l","i","s","h">>,
     study_levels_en |-> <<"b","a","c","h","e","l","o","r","'","s"," ","s","t","u","d","i","e","s">>, description_en |-> <<"n","a","n">>,
     description_et |-> <<"s","i","s","s","e","j","u","h","a","t","u","s">>]

Course3 ==
    [code |-> <<"M","T","A","T",".","0","3">>, title_en |-> <<"D","a","t","a"," ","M","i","n","i","n","g">>, title_et |-> <<"D","a","t","a"," ","M","i","n","i","n","g">>,
     eap |-> <<"1","2",".","0">>, semester |-> <<"s","p","r","i","n","g">>, study_languages_en |-> <<"E","n","g","l","i","s","h">>,
     study_levels_en |-> <<"d","o","c","t","o","r","a","l"," ","s","t","u","d","i","e","s">>, description_en |-> <<"p","a","t","t","e","r","n","s"," ","i","n"," ","d","a","t","a">>,
     description_et |-> <<>>]

\* a record with a description in both languages
Course4 ==
    [code |-> <<"L","T","A","T",".","0","4">>, title_en |-> <<"I","n","t","r","o"," ","t","o"," ","A","I">>, title_et |-> <<"S","i","s","s","e","j","u","h","a","t","u","s">>,
     eap |-> <<"6",".","0">>, semester |-> <<"a","u","t","u","m","n">>, study_languages_en |-> <<"E","s","t","o","n","i","a","n">>,
     study_levels_en |-> <<"b","a","c","h","e","l","o","r","'","s"," ","s","t","u","d","i","e","s">>, description_en |-> <<"b","a","s","i","c","s"," ","o","f"," ","a","i">>,
     description_et |-> <<"t","e","h","i","s","i","n","t","e","l","l","e","k","t","i"," ","a","l","u","s","e","d">>]

Hit(meta, dist, doc) == [meta |-> meta, dist |-> dist, doc |-> doc]

\* hit lists the backend answers a session's queries with: none, and two different lists
HitsA == <<Hit(Course1, 100, <<"m","l"," ","c","o","u","r","s","e">>), Hit(Course2, 200, <<"a","i"," ","c","o","u","r","s","e">>)>>
HitsB == <<Hit(Course3, 450, <<>>)>>
SessionResults == {<<>>, HitsA, HitsB}

\* str(exc) of an exception raised by collection.query
SearchErrors == {<<"C","o","n","n","e","c","t","i","o","n"," ","r","e","f","u","s","e","d">>, <<>>}

\* An exception is [status_code, message]: the HTTP status of the response (0 when there
\* was none) and the text str(exc) gives.
str(e) == e.message

\* exceptions the completion call or its stream raises: the credential is refused, the
\* request rate is exceeded, the transport fails, the request itself is refused
LlmExceptions ==
    {[status_code |-> 401, message |-> <<"E","r","r","o","r"," ","c","o","d","e",":"," ","4","0","1">>],
     [status_code |-> 429, message |-> <<"E","r","r","o","r"," ","c","o","d","e",":"," ","4","2","9">>],
     [status_code |-> 0,   message |-> <<"C","o","n","n","e","c","t","i","o","n"," ","e","r","r","o","r",".">>],
     [status_code |-> 400, message |-> <<"E","r","r","o","r"," ","c","o","d","e",":"," ","4","0","0"," ","-"," ","I","n","v","a","l","i","d"," ","r","e","q","u","e","s","t">>]}

\* fragments of a completion stream
Fragments == {<<"o","k">>}

-----------------------------------------------------------------------------
(* The session: state after the first run of the script *)

SidebarDefault ==
    /\ _semester_val = <<>>
    /\ _teach_lang_val = <<>>
    /\ _level_val = <<>>
    /\ eap_min = EAP_SLIDER_MIN
    /\ eap_max = EAP_SLIDER_MAX

\* _init_state, then the welcome message
SessionInit ==
    /\ messages = <<WelcomeMsg>>
    /\ last_context = <<>>
    /\ last_cards_html = <<>>
    /\ api_key_valid = "None"
    /\ api_key_tested = <<>>
    /\ total_in = 0
    /\ total_out = 0
    /\ api_key = <<>>

\* no chat turn has been run
TurnInit ==
    /\ pc = "idle"
    /\ prompt = <<>>
    /\ do_search = <<>>
    /\ results = <<>>
    /\ search_err = <<>>
    /\ new_cards_html = <<>>
    /\ llm_messages = <<>>
    /\ input_token_estimate = 0
    /\ collected_chunks = <<>>
    /\ trace = <<>>
    /\ exc = <<>>
    /\ searched_context = <<>>
    /\ validated = {}

NoText == [total |-> 0, phrase |-> 0, reps |-> 0, word |-> 1, style |-> 1]

TextIdle   == inText = NoText /\ guardOut = <<>> /\ followOut = <<>>
FilterIdle == whereOut = NotRun /\ langOut = NotRun
CardsIdle  == hitsIn = <<>> /\ cardsOut = <<>> /\ contextOut = <<>>
ClauseIdle == targetIn = <<>> /\ levelOut = NotRun
CostIdle   == costOut = <<>>

Init ==
    /\ SessionInit
    /\ SidebarDefault
    /\ TurnInit
    /\ ClauseIdle
    /\ CostIdle
    /\ TextIdle
    /\ FilterIdle
    /\ CardsIdle

pureVars == <<textVars, filterVars, cardVars, clauseVars, costVars>>

-----------------------------------------------------------------------------
(* The sidebar, run at the top of every script run *)

\* "Detect key change -> reset validation" (the new values of api_key_valid, api_key_tested)
KeyChangeReset(key, valid, tested) ==
    IF key # <<>> /\ last8(key) # tested THEN <<"None", <<>>>> ELSE <<valid, tested>>

\* a script run starts with no local variables of the previous run
FreshLocals ==
    /\ prompt' = <<>>
    /\ do_search' = <<>>
    /\ results' = <<>>
    /\ search_err' = <<>>
    /\ new_cards_html' = <<>>
    /\ llm_messages' = <<>>
    /\ input_token_estimate' = 0
    /\ collected_chunks' = <<>>
    /\ trace' = <<>>
    /\ exc' = <<>>

\* the user types a key (or clears the field): the script reruns without a prompt
SetApiKey ==
    /\ pc = "idle"
    /\ \E k \in Keys \cup {<<>>} :
        /\ k # api_key
        /\ api_key' = k
        /\ api_key_valid' = KeyChangeReset(k, api_key_valid, api_key_tested)[1]
        /\ api_key_tested' = KeyChangeReset(k, api_key_valid, api_key_tested)[2]
    /\ FreshLocals
    /\ UNCHANGED <<messages, last_context, last_cards_html, total_in, total_out,
                   sidebarVars, pc, searched_context, validated, pureVars>>

\* "Clear chat" that leaves the cached context block in place
ClearChat_KeepsContext ==
    /\ pc = "idle"
    /\ messages' = <<WelcomeMsg>>
    /\ last_cards_html' = <<>>
    /\ total_in' = 0
    /\ total_out' = 0
    /\ validated' = {}
    /\ FreshLocals
    /\ UNCHANGED <<last_context, searched_context, api_key_valid, api_key_tested, api_key,
                   sidebarVars, pc, pureVars>>

\* "Clear chat": the state is reset and st.rerun() runs the script again, which finds the
\* history empty and appends the welcome message
ClearChat ==
    /\ pc = "idle"
    /\ messages' = <<WelcomeMsg>>
    /\ last_context' = <<>>
    /\ last_cards_html' = <<>>
    /\ total_in' = 0
    /\ total_out' = 0
    /\ searched_context' = <<>>
    /\ validated' = {}
    /\ FreshLocals
    /\ UNCHANGED <<api_key_valid, api_key_tested, api_key, sidebarVars, pc, pureVars>>

-----------------------------------------------------------------------------
(* One chat turn: the script run started by st.chat_input *)

\* the run ends with `reply` shown but not saved to the history
EndWith_NotSaved(reply) ==
    /\ messages' = messages
    /\ pc' = "idle"

\* the run ends (st.stop() or the end of the script) with `reply` shown and saved
EndWith(reply) ==
    /\ messages' = Append(messages, Msg("assistant", reply))
    /\ pc' = "idle"

\* the utterance is appended to the history and shown
Submit ==
    /\ pc = "idle"
    /\ Len(messages) < 1 + 2 * MaxTurns
    /\ \E p \in Prompts :
        /\ prompt' = p
        /\ messages' = Append(messages, Msg("user", Plain(p)))
    /\ api_key_valid' = KeyChangeReset(api_key, api_key_valid, api_key_tested)[1]
    /\ api_key_tested' = KeyChangeReset(api_key, api_key_valid, api_key_tested)[2]
    /\ pc' = "guard"
    /\ do_search' = <<>>
    /\ results' = <<>>
    /\ search_err' = <<>>
    /\ new_cards_html' = <<>>
    /\ llm_messages' = <<>>
    /\ input_token_estimate' = 0
    /\ collected_chunks' = <<>>
    /\ trace' = <<>>
    /\ exc' = <<>>
    /\ UNCHANGED <<last_context, last_cards_html, total_in, total_out, api_key,
                   sidebarVars, searched_context, validated, pureVars>>

\* a flagged utterance is let through to the API key gate
Guard_NoStop ==
    /\ pc = "guard"
    /\ trace' = Append(trace, "is_jailbreak")
    /\ pc' = "keygate"
    /\ UNCHANGED <<sessVars, api_key, sidebarVars, prompt, do_search, results, search_err,
                   new_cards_html, llm_messages, input_token_estimate, collected_chunks,
                   searched_context, exc, validated, pureVars>>

\* Layer 1: the jailbreak guard
Guard ==
    /\ pc = "guard"
    /\ trace' = Append(trace, "is_jailbreak")
    /\ IF is_jailbreak(prompt)[1]
       THEN EndWith(Fixed("decline"))
       ELSE pc' = "keygate" /\ UNCHANGED messages
    /\ UNCHANGED <<last_context, last_cards_html, api_key_valid, api_key_tested, total_in,
                   total_out, api_key, sidebarVars, prompt, do_search, results, search_err,
                   new_cards_html, llm_messages, input_token_estimate, collected_chunks,
                   searched_context, exc, validated, pureVars>>

\* Layer 2: the API key gate, up to the validation call
KeyGate ==
    /\ pc = "keygate"
    /\ IF api_key = <<>>
       THEN EndWith(Fixed("add_key"))
       ELSE /\ pc' = IF last8(api_key) # api_key_tested THEN "validate" ELSE "keycheck"
            /\ UNCHANGED messages
    /\ UNCHANGED <<last_context, last_cards_html, api_key_valid, api_key_tested, total_in,
                   total_out, api_key, sidebarVars, prompt, do_search, results, search_err,
                   new_cards_html, llm_messages, input_token_estimate, collected_chunks,
                   trace, searched_context, exc, validated, pureVars>>

\* validate_api_key: True when client.models.list() succeeds; any exception gives False
ValidateKey ==
    /\ pc = "validate"
    /\ \E valid \in (IF api_key \in AcceptedKeys THEN {"True", "False"} ELSE {"False"}) :
        api_key_valid' = valid
    /\ api_key_tested' = last8(api_key)
    /\ validated' = validated \cup {last8(api_key)}
    /\ trace' = Append(trace, "validate_api_key")
    /\ pc' = "keycheck"
    /\ UNCHANGED <<messages, last_context, last_cards_html, total_in, total_out, api_key,
                   sidebarVars, prompt, do_search, results, search_err, new_cards_html,
                   llm_messages, input_token_estimate, collected_chunks, searched_context,
                   exc, pureVars>>

\* "if not st.session_state.api_key_valid"
KeyCheck ==
    /\ pc = "keycheck"
    /\ IF api_key_valid # "True"
       THEN EndWith(Fixed("key_invalid"))
       ELSE pc' = "rag" /\ UNCHANGED messages
    /\ UNCHANGED <<last_context, last_cards_html, api_key_valid, api_key_tested, total_in,
                   total_out, api_key, sidebarVars, prompt, do_search, results, search_err,
                   new_cards_html, llm_messages, input_token_estimate, collected_chunks,
                   trace, searched_context, exc, validated, pureVars>>

\* do_search = not is_followup(prompt)
Rag ==
    /\ pc = "rag"
    /\ do_search' = <<~is_followup(prompt)>>
    /\ new_cards_html' = <<>>
    /\ pc' = IF is_followup(prompt) THEN "assemble" ELSE "query"
    /\ UNCHANGED <<sessVars, api_key, sidebarVars, prompt, results, search_err,
                   llm_messages, input_token_estimate, collected_chunks, trace,
                   searched_context, exc, validated, pureVars>>

\* the context block and the cards are cached before the result is found to be empty
AfterQuery_CacheFirst(hits, err) ==
    /\ results' = hits
    /\ search_err' = err
    /\ trace' = Append(trace, "collection.query")
    /\ IF err # <<>> /\ err[1] # <<>>
       THEN /\ EndWith(Fmt("Search failed: {}", err[1]))
            /\ UNCHANGED <<last_context, last_cards_html, new_cards_html, searched_context>>
       ELSE IF hits = <<>>
       THEN /\ EndWith(Fixed("no_courses_found"))
            /\ last_context' = build_context(hits)
            /\ last_cards_html' = render_course_cards(hits)
            /\ UNCHANGED <<new_cards_html, searched_context>>
       ELSE /\ last_context' = build_context(hits)
            /\ new_cards_html' = render_course_cards(hits)
            /\ last_cards_html' = render_course_cards(hits)
            /\ searched_context' = build_context(hits)
            /\ pc' = "assemble"
            /\ UNCHANGED messages
    /\ UNCHANGED <<api_key_valid, api_key_tested, total_in, total_out, api_key, sidebarVars,
                   prompt, do_search, llm_messages, input_token_estimate, collected_chunks,
                   exc, validated, pureVars>>

\* the cards of the search are shown but not cached
AfterQuery_CardsNotCached(hits, err) ==
    /\ results' = hits
    /\ search_err' = err
    /\ trace' = Append(trace, "collection.query")
    /\ IF err # <<>> /\ err[1] # <<>>
       THEN /\ EndWith(Fmt("Search failed: {}", err[1]))
            /\ UNCHANGED <<last_context, last_cards_html, new_cards_html, searched_context>>
       ELSE IF hits = <<>>
       THEN /\ EndWith(Fixed("no_courses_found"))
            /\ UNCHANGED <<last_context, last_cards_html, new_cards_html, searched_context>>
       ELSE /\ last_context' = build_context(hits)
            /\ new_cards_html' = render_course_cards(hits)
            /\ last_cards_html' = last_cards_html
            /\ searched_context' = build_context(hits)
            /\ pc' = "assemble"
            /\ UNCHANGED messages
    /\ UNCHANGED <<api_key_valid, api_key_tested, total_in, total_out, api_key, sidebarVars,
                   prompt, do_search, llm_messages, input_token_estimate, collected_chunks,
                   exc, validated, pureVars>>

\* what follows collection.query: the error reply, the no-match reply, or the caching of
\* the context block and the cards
AfterQuery(hits, err) ==
    /\ results' = hits
    /\ search_err' = err
    /\ trace' = Append(trace, "collection.query")
    /\ IF err # <<>> /\ err[1] # <<>>
       THEN /\ EndWith(Fmt("Search failed: {}", err[1]))
            /\ UNCHANGED <<last_context, last_cards_html, new_cards_html, searched_context>>
       ELSE IF hits = <<>>
       THEN /\ EndWith(Fixed("no_courses_found"))
            /\ UNCHANGED <<last_context, last_cards_html, new_cards_html, searched_context>>
       ELSE /\ last_context' = build_context(hits)
            /\ new_cards_html' = render_course_cards(hits)
            /\ last_cards_html' = render_course_cards(hits)
            /\ searched_context' = build_context(hits)
            /\ pc' = "assemble"
            /\ UNCHANGED messages
    /\ UNCHANGED <<api_key_valid, api_key_tested, total_in, total_out, api_key, sidebarVars,
                   prompt, do_search, llm_messages, input_token_estimate, collected_chunks,
                   exc, validated, pureVars>>

\* collection.query returns its hits
QueryReturns ==
    /\ pc = "query"
    /\ \E hits \in SessionResults : AfterQuery(hits, <<>>)

\* collection.query raises: the three lists are emptied and search_err = str(exc)
QueryRaises ==
    /\ pc = "query"
    /\ \E e \in SearchErrors : AfterQuery(<<>>, <<e>>)

\* the enriched user message, with a follow-up sent without the cached context block
llm_user_prompt_NoContext ==
    IF do_search = <<TRUE>>
    THEN Fmt2("search_prompt", strip(prompt), last_context)
    ELSE Fmt2("followup_prompt", strip(prompt), <<>>)

\* the enriched user message that carries the context block
llm_user_prompt ==
    IF do_search = <<TRUE>>
    THEN Fmt2("search_prompt", strip(prompt), last_context)
    ELSE Fmt2("followup_prompt", strip(prompt), last_context)

\* the whole history is sent, the current user message included, before the enriched one
Assemble_WholeHistory ==
    /\ pc = "assemble"
    /\ llm_messages' = <<Msg("system", SYSTEM_PROMPT)>> \o messages
                         \o <<Msg("user", llm_user_prompt)>>
    /\ input_token_estimate' =
           SumTokens(<<Msg("system", SYSTEM_PROMPT)>> \o messages
                       \o <<Msg("user", llm_user_prompt)>>)
    /\ pc' = "create"
    /\ UNCHANGED <<sessVars, api_key, sidebarVars, prompt, do_search, results, search_err,
                   new_cards_html, collected_chunks, trace, searched_context, exc, validated, pureVars>>

\* system + history without the current user message + enriched prompt; input tokens
Assemble ==
    /\ pc = "assemble"
    /\ llm_messages' = <<Msg("system", SYSTEM_PROMPT)>>
                         \o SubSeq(messages, 1, Len(messages) - 1)
                         \o <<Msg("user", llm_user_prompt)>>
    /\ input_token_estimate' =
           SumTokens(<<Msg("system", SYSTEM_PROMPT)>>
                       \o SubSeq(messages, 1, Len(messages) - 1)
                       \o <<Msg("user", llm_user_prompt)>>)
    /\ pc' = "create"
    /\ UNCHANGED <<sessVars, api_key, sidebarVars, prompt, do_search, results, search_err,
                   new_cards_html, collected_chunks, trace, searched_context, exc, validated, pureVars>>

\* the reply the except branch writes for str(exc) = err
ErrorReply(err) ==
    IF Contains(err, <<"4","0","1">>) \/ Contains(lower(err), <<"a","u","t","h","e","n","t","i","c","a","t","i","o","n">>)
         \/ Contains(lower(err), <<"i","n","v","a","l","i","d">>)
    THEN Fixed("llm_key_invalid")
    ELSE IF Contains(err, <<"4","2","9">>) \/ Contains(lower(err), <<"r","a","t","e">>)
    THEN Fixed("llm_rate_limit")
    ELSE Fmt("LLM request failed: {}", err)

\* the output tokens are taken to be the number of fragments received
Finish_FragmentCount(llm_text) ==
    /\ total_in' = total_in + input_token_estimate
    /\ total_out' = total_out + Len(collected_chunks)
    /\ EndWith(llm_text)

\* the output counter is overwritten by the reply's tokens instead of being added to
Finish_Overwrite(llm_text) ==
    /\ total_in' = total_in + input_token_estimate
    /\ total_out' = count_tokens(llm_text)
    /\ EndWith(llm_text)

\* the token counters are updated and the reply is saved to the history
Finish(llm_text) ==
    /\ total_in' = total_in + input_token_estimate
    /\ total_out' = total_out + count_tokens(llm_text)
    /\ EndWith(llm_text)

\* the except branch, then the rest of the run
Except(err) ==
    /\ api_key_valid' = IF ErrorReply(err) = Fixed("llm_key_invalid") THEN "False"
                        ELSE api_key_valid
    /\ validated' = IF ErrorReply(err) = Fixed("llm_key_invalid")
                    THEN validated \ {last8(api_key)} ELSE validated
    /\ Finish(ErrorReply(err))

\* chat.completions.create(stream=True) returns a stream
CreateReturns ==
    /\ pc = "create"
    /\ trace' = Append(trace, "completions.create")
    /\ collected_chunks' = <<>>
    /\ pc' = "stream"
    /\ UNCHANGED <<sessVars, api_key, sidebarVars, prompt, do_search, results, search_err,
                   new_cards_html, llm_messages, input_token_estimate, searched_context,
                   exc, validated, pureVars>>

\* chat.completions.create raises
CreateRaises ==
    /\ pc = "create"
    /\ trace' = Append(trace, "completions.create")
    /\ \E e \in LlmExceptions : exc' = <<e>> /\ Except(str(e))
    /\ UNCHANGED <<last_context, last_cards_html, api_key_tested, api_key, sidebarVars,
                   prompt, do_search, results, search_err, new_cards_html, llm_messages,
                   input_token_estimate, collected_chunks, searched_context, pureVars>>

\* _token_gen yields one fragment, which st.write_stream shows
StreamChunk ==
    /\ pc = "stream"
    /\ Len(collected_chunks) < MaxChunks
    /\ \E f \in Fragments : collected_chunks' = Append(collected_chunks, f)
    /\ UNCHANGED <<sessVars, api_key, sidebarVars, pc, prompt, do_search, results,
                   search_err, new_cards_html, llm_messages, input_token_estimate, trace,
                   searched_context, exc, validated, pureVars>>

\* the stream ends: st.write_stream returns the concatenated fragments
StreamEnds ==
    /\ pc = "stream"
    /\ Finish(Plain(Join(collected_chunks, <<>>)))
    /\ UNCHANGED <<last_context, last_cards_html, api_key_valid, api_key_tested, api_key,
                   sidebarVars, prompt, do_search, results, search_err, new_cards_html,
                   llm_messages, input_token_estimate, collected_chunks, trace,
                   searched_context, exc, validated, pureVars>>

\* the stream raises while it is consumed
StreamRaises ==
    /\ pc = "stream"
    /\ \E e \in LlmExceptions : exc' = <<e>> /\ Except(str(e))
    /\ UNCHANGED <<last_context, last_cards_html, api_key_tested, api_key, sidebarVars,
                   prompt, do_search, results, search_err, new_cards_html, llm_messages,
                   input_token_estimate, collected_chunks, trace, searched_context,
                   pureVars>>

Next ==
    \/ SetApiKey
    \/ ClearChat
    \/ Submit
    \/ Guard
    \/ KeyGate
    \/ ValidateKey
    \/ KeyCheck
    \/ Rag
    \/ QueryReturns
    \/ QueryRaises
    \/ Assemble
    \/ CreateReturns
    \/ CreateRaises
    \/ StreamChunk
    \/ StreamEnds
    \/ StreamRaises

Spec == Init /\ [][Next]_vars

-----------------------------------------------------------------------------
(* Input texts.  A text is described by what it is built from, so that its *)
(* length, its words and the phrase it carries are known independently of  *)
(* the functions under check:                                              *)
(*   total  - 0, or the exact character length, reached by one filler word *)
(*   phrase - 0, or the index of an override phrase of Phrases             *)
(*   reps   - how many times the word Words[word] is repeated              *)
(*   style  - letter case, separator and surrounding whitespace            *)

ExtraLen  == 1     \* texts of up to MAX_QUERY_LEN + ExtraLen characters
ExtraReps == 2     \* words repeated up to MAX_WORD_REPS + ExtraReps times

Phrases == <<
    <<<<"i","g","n","o","r","e">>, <<"p","r","e","v","i","o","u","s">>, <<"i","n","s","t","r","u","c","t","i","o","n","s">>>>,
    <<<<"i","g","n","o","r","e">>, <<"a","l","l">>, <<"i","n","s","t","r","u","c","t","i","o","n">>>>,
    <<<<"f","o","r","g","e","t">>, <<"y","o","u","r">>, <<"i","n","s","t","r","u","c","t","i","o","n","s">>>>,
    <<<<"y","o","u">>, <<"a","r","e">>, <<"n","o","w">>>>,
    <<<<"a","c","t">>, <<"a","s">>>>,
    <<<<"p","r","e","t","e","n","d">>, <<"y","o","u">>, <<"a","r","e">>>>,
    <<<<"p","r","e","t","e","n","d">>, <<"t","o">>, <<"b","e">>>>,
    <<<<"d","a","n">>>>,
    <<<<"d","i","s","r","e","g","a","r","d">>>>,
    <<<<"o","v","e","r","r","i","d","e">>>>,
    <<<<"s","y","s","t","e","m">>, <<"p","r","o","m","p","t">>>>,
    <<<<"s","y","s","t","e","m","p","r","o","m","p","t">>>>,
    <<<<"j","a","i","l","b","r","e","a","k">>>>,
    <<<<"b","y","p","a","s","s">>>>,
    <<<<"d","o">>, <<"a","n","y","t","h","i","n","g">>, <<"n","o","w">>>>,
    <<<<"n","o">>, <<"r","e","s","t","r","i","c","t","i","o","n","s">>>>,
    <<<<"u","n","l","i","m","i","t","e","d">>, <<"p","o","w","e","r">>>>,
    <<<<"n","e","w">>, <<"p","e","r","s","o","n","a">>>>,
    <<<<"r","o","l","e","p","l","a","y">>, <<"a","s">>>>,
    <<<<"r","e","s","p","o","n","d">>, <<"a","s">>, <<"t","h","o","u","g","h">>>>,
    <<<<"h","y","p","o","t","h","e","t","i","c","a","l","l","y">>, <<"s","p","e","a","k","i","n","g">>>>,
    <<<<"i","n">>, <<"a">>, <<"f","i","c","t","i","o","n","a","l">>, <<"s","c","e","n","a","r","i","o">>>>,
    <<<<"d","e","v","e","l","o","p","e","r">>, <<"m","o","d","e">>>>,
    <<<<"p","r","o","m","p","t">>, <<"i","n","j","e","c","t","i","o","n">>>>,
    <<<<"i","g","n","o","r","e">>, <<"s","a","f","e","t","y">>>>
>>

Words == <<<<"m","l">>, <<"D","a","t","a">>>>

Styles == <<
    [cas |-> "asis",  sep |-> <<" ">>,    wrap |-> FALSE],
    [cas |-> "upper", sep |-> <<"\t">>,   wrap |-> TRUE],
    [cas |-> "mixed", sep |-> <<" ","\n"," ">>, wrap |-> FALSE],
    [cas |-> "mixed", sep |-> <<" "," ">>,   wrap |-> TRUE]
>>

RepCounts ==
    {0, 1, FOLLOWUP_WORD_THRESHOLD - 1, FOLLOWUP_WORD_THRESHOLD}
        \cup ((MAX_WORD_REPS - 1)..(MAX_WORD_REPS + ExtraReps))

Totals == {0} \cup (MAX_QUERY_LEN..(MAX_QUERY_LEN + ExtraLen))

\* every other letter in upper case
mixed(s) == [i \in 1..Len(s) |-> IF i % 2 = 1 THEN upper(<<s[i]>>)[1] ELSE lower(<<s[i]>>)[1]]

Cased(cas, s) == CASE cas = "upper" -> upper(s) [] cas = "mixed" -> mixed(s) [] OTHER -> s

PhraseTokens(d) ==
    IF d.phrase = 0 THEN <<>>
    ELSE [t \in 1..Len(Phrases[d.phrase]) |-> Cased(Styles[d.style].cas, Phrases[d.phrase][t])]

\* the repeated word; outside the "asis" style its copies alternate between upper and lower case
RepTokens(d) ==
    [i \in 1..d.reps |->
        IF Styles[d.style].cas = "asis" THEN Words[d.word]
        ELSE IF i % 2 = 1 THEN upper(Words[d.word]) ELSE lower(Words[d.word])]

Lead(d)  == IF Styles[d.style].wrap THEN <<" ">>  ELSE <<>>
Trail(d) == IF Styles[d.style].wrap THEN <<"\n">> ELSE <<>>
Body(d)  == Join(PhraseTokens(d) \o RepTokens(d), Styles[d.style].sep)

\* the length of the filler word that brings the text to d.total characters
PadLen(d) ==
    IF d.total = 0 THEN 0
    ELSE d.total - Len(Lead(d)) - Len(Trail(d)) - Len(Body(d))
           - (IF Body(d) = <<>> THEN 0 ELSE Len(Styles[d.style].sep))

PadToken(d) == [i \in 1..PadLen(d) |-> "x"]

\* the words of the text, as it was built
DescTokens(d) ==
    (IF PadLen(d) > 0 THEN <<PadToken(d)>> ELSE <<>>) \o PhraseTokens(d) \o RepTokens(d)

\* the text itself
Chars(d) == Lead(d) \o Join(DescTokens(d), Styles[d.style].sep) \o Trail(d)

\* the largest number of times one word occurs in the text, letter case ignored
DescMaxCount(d) ==
    LET toks == DescTokens(d)
        n(i) == Cardinality({j \in 1..Len(toks) : lower(toks[j]) = lower(toks[i])})
    IN  IF toks = <<>> THEN 0
        ELSE LET c == {n(i) : i \in 1..Len(toks)}
             IN  CHOOSE m \in c : \A k \in c : k <= m

\* short texts in every combination; long texts in the "asis" and first "mixed" style
TextInputs ==
    {d \in [total : Totals, phrase : 0..Len(Phrases), reps : RepCounts,
            word : 1..Len(Words), style : 1..Len(Styles)] :
        d.total = 0 \/ (d.style \in {1, 3} /\ d.word = 1 /\ d.reps \in {0, MAX_WORD_REPS + 1}
                         /\ d.phrase \in {0, 1, 5, 8})}

\* a retrieval context left by an earlier search
SomeContext == build_context(HitsA)

-----------------------------------------------------------------------------
(* The text functions applied to the input texts *)

InitText ==
    /\ inText \in TextInputs
    /\ guardOut = <<>>
    /\ followOut = <<>>
    /\ messages = <<WelcomeMsg>>
    /\ last_context \in {<<>>, SomeContext}
    /\ last_cards_html = <<>> /\ api_key_valid = "None" /\ api_key_tested = <<>>
    /\ total_in = 0 /\ total_out = 0 /\ api_key = <<>>
    /\ SidebarDefault
    /\ TurnInit
    /\ ClauseIdle
    /\ CostIdle
    /\ FilterIdle
    /\ CardsIdle

RunJailbreak ==
    /\ guardOut = <<>>
    /\ guardOut' = is_jailbreak(Chars(inText))
    /\ UNCHANGED <<inText, followOut, sessVars, api_key, sidebarVars, turnVars,
                   clauseVars, costVars,
                   filterVars, cardVars>>

RunFollowup ==
    /\ followOut = <<>>
    /\ followOut' = <<is_followup(Chars(inText))>>
    /\ UNCHANGED <<inText, guardOut, sessVars, api_key, sidebarVars, turnVars,
                   clauseVars, costVars,
                   filterVars, cardVars>>

NextText == RunJailbreak \/ RunFollowup

SpecText == InitText /\ [][NextText]_vars

-----------------------------------------------------------------------------
(* The filter compiler applied to sidebar selections *)

\* credit values the slider is set to: both ends, their neighbours, a one- and a two-digit value
EapSamples == {EAP_SLIDER_MIN, EAP_SLIDER_MIN + 1, 3, 12, EAP_SLIDER_MAX - 1, EAP_SLIDER_MAX}

InitFilter ==
    /\ _semester_val \in SemesterOptions
    /\ _teach_lang_val \in LangOptions
    /\ _level_val \in LevelOptions
    /\ eap_min \in EapSamples
    /\ eap_max \in EapSamples
    /\ eap_min <= eap_max
    /\ SessionInit
    /\ TurnInit
    /\ ClauseIdle
    /\ CostIdle
    /\ FilterIdle
    /\ TextIdle
    /\ CardsIdle

RunBuildWhereFilter ==
    /\ whereOut = NotRun
    /\ whereOut' = build_where_filter(eap_min, eap_max)
    /\ UNCHANGED <<sessVars, api_key, sidebarVars, turnVars, clauseVars, costVars,
                   textVars, cardVars, langOut>>

RunLangOrClause ==
    /\ langOut = NotRun
    /\ _teach_lang_val # <<>>
    /\ langOut' = _lang_or_clause(_teach_lang_val)
    /\ UNCHANGED <<sessVars, api_key, sidebarVars, turnVars, clauseVars, costVars,
                   textVars, cardVars, whereOut>>

NextFilter == RunBuildWhereFilter \/ RunLangOrClause

SpecFilter == InitFilter /\ [][NextFilter]_vars

-----------------------------------------------------------------------------
(* The card and context builders applied to hit lists *)

MaxHits == 3     \* hits per list

\* a text of DESC_SNIPPET + ExtraLen characters whose characters past the snippet differ
LongText == [i \in 1..(DESC_SNIPPET + ExtraLen) |-> IF i <= DESC_SNIPPET THEN "a" ELSE "b"]

\* a record whose only description, the Estonian one, is longer than the snippet
Course5 == [Course1 EXCEPT !.code = <<"L","T","A","T",".","0","5">>, !.description_et = LongText]

\* two records at the same distance, one off the whole percents, one farther than 1.0, one
\* with both descriptions, and two with a text longer than the snippet
SampleHits ==
    {Hit(Course1, 100, <<"m","l"," ","c","o","u","r","s","e">>), Hit(Course2, 100, <<"a","i"," ","c","o","u","r","s","e">>),
     Hit(Course3, 452, <<>>), Hit(Course1, 1200, <<"m","l"," ","c","o","u","r","s","e">>),
     Hit(Course4, 300, <<"a","i"," ","b","a","s","i","c","s">>), Hit(Course5, 300, <<"m","l"," ","c","o","u","r","s","e">>),
     Hit(Course1, 300, LongText)}

\* end-to-end scenario A: five hits at distances 0.1 .. 0.5
ScenarioA ==
    <<Hit(Course1, 100, <<"m","l"," ","c","o","u","r","s","e">>), Hit(Course2, 200, <<"a","i"," ","c","o","u","r","s","e">>),
      Hit(Course3, 300, <<>>), Hit(Course1, 400, <<"m","l"," ","c","o","u","r","s","e">>), Hit(Course2, 500, <<>>)>>

HitInputs == UNION {[1..n -> SampleHits] : n \in 0..MaxHits} \cup {ScenarioA}

InitCards ==
    /\ hitsIn \in HitInputs
    /\ cardsOut = <<>>
    /\ contextOut = <<>>
    /\ SessionInit
    /\ SidebarDefault
    /\ TurnInit
    /\ ClauseIdle
    /\ CostIdle
    /\ TextIdle
    /\ FilterIdle

RunRenderCards ==
    /\ cardsOut = <<>>
    /\ cardsOut' = <<render_course_cards(hitsIn)>>
    /\ UNCHANGED <<sessVars, api_key, sidebarVars, turnVars, clauseVars, costVars,
                   textVars, filterVars, hitsIn, contextOut>>

RunBuildContext ==
    /\ contextOut = <<>>
    /\ contextOut' = <<build_context(hitsIn)>>
    /\ UNCHANGED <<sessVars, api_key, sidebarVars, turnVars, clauseVars, costVars,
                   textVars, filterVars, hitsIn, cardsOut>>

NextCards == RunRenderCards \/ RunBuildContext

SpecCards == InitCards /\ [][NextCards]_vars

-----------------------------------------------------------------------------
(* The facet clause compilers applied to component values *)

\* component values the compilers are called with: the components of the two enumerations,
\* and values that are not components of any enumerated string
ClauseTargets ==
    {<<"D","a","n","i","s","h">>, <<"E","n","g","l","i","s","h">>, <<"E","s","t","o","n","i","a","n">>, <<"F","i","n","n","i","s","h">>, <<"F","r","e","n","c","h">>, <<"G","e","r","m","a","n">>, <<"L","a","t","i","n">>,
     <<"N","o","r","w","e","g","i","a","n">>, <<"O","l","d"," ","G","r","e","e","k">>, <<"R","u","s","s","i","a","n">>, <<"S","e","t","o">>, <<"S","p","a","n","i","s","h">>, <<"S","w","e","d","i","s","h">>,
     <<"V","õ","r","o"," ","l","a","n","g","u","a","g","e">>,
     <<"b","a","c","h","e","l","o","r","'","s"," ","s","t","u","d","i","e","s">>, <<"m","a","s","t","e","r","'","s"," ","s","t","u","d","i","e","s">>, <<"d","o","c","t","o","r","a","l"," ","s","t","u","d","i","e","s">>,
     <<"p","r","o","f","e","s","s","i","o","n","a","l"," ","h","i","g","h","e","r"," ","e","d","u","c","a","t","i","o","n"," ","s","t","u","d","i","e","s">>,
     <<"i","n","t","e","g","r","a","t","e","d"," ","b","a","c","h","e","l","o","r","'","s"," ","a","n","d"," ","m","a","s","t","e","r","'","s"," ","s","t","u","d","i","e","s">>,
     <<"L","a","t","v","i","a","n">>, <<"I","t","a","l","i","a","n">>, <<"C","h","i","n","e","s","e">>, <<"e","n","g","l","i","s","h">>, <<"G","r","e","e","k">>,
     <<"v","o","c","a","t","i","o","n","a","l"," ","s","t","u","d","i","e","s">>, <<"s","t","u","d","i","e","s">>, <<"P","h","D">>}

InitClause ==
    /\ targetIn \in ClauseTargets
    /\ levelOut = NotRun
    /\ SessionInit
    /\ SidebarDefault
    /\ TurnInit
    /\ CostIdle
    /\ TextIdle
    /\ FilterIdle
    /\ CardsIdle

CompileLangClause ==
    /\ langOut = NotRun
    /\ langOut' = _lang_or_clause(targetIn)
    /\ UNCHANGED <<sessVars, api_key, sidebarVars, turnVars, clauseVars, costVars,
                   textVars, cardVars, whereOut>>

CompileLevelClause ==
    /\ levelOut = NotRun
    /\ levelOut' = _level_or_clause(targetIn)
    /\ UNCHANGED <<sessVars, api_key, sidebarVars, turnVars, costVars,
                   textVars, filterVars, cardVars, targetIn>>

NextClause == CompileLangClause \/ CompileLevelClause

SpecClause == InitClause /\ [][NextClause]_vars

-----------------------------------------------------------------------------
(* The cost tracker applied to token totals *)

MaxTokens == 9     \* small token totals run from 0 to MaxTokens

\* token totals the tracker is shown with: the small ones, and a thousand and two thousand
TokenCounts == 0..MaxTokens \cup {1000, 2000}

InitCost ==
    /\ total_in \in TokenCounts
    /\ total_out \in TokenCounts
    /\ costOut = <<>>
    /\ messages = <<WelcomeMsg>>
    /\ last_context = <<>>
    /\ last_cards_html = <<>> /\ api_key_valid = "None" /\ api_key_tested = <<>>
    /\ api_key = <<>>
    /\ SidebarDefault
    /\ TurnInit
    /\ ClauseIdle
    /\ TextIdle
    /\ FilterIdle
    /\ CardsIdle

\* render_cost_tracker: cost = estimate_cost(total_in, total_out)
RunCostTracker ==
    /\ costOut = <<>>
    /\ costOut' = <<estimate_cost(total_in, total_out)>>
    /\ UNCHANGED <<sessVars, api_key, sidebarVars, turnVars, textVars, filterVars, cardVars,
                   clauseVars>>

NextCost == RunCostTracker

SpecCost == InitCost /\ [][NextCost]_vars

-----------------------------------------------------------------------------
(* Claims about the safety guard and the follow-up heuristic (SpecText) *)

\* C1: every text longer than MAX_QUERY_LEN characters is rejected with reason "length",
\* whatever it contains (an override phrase, a flooded word).
C1_LengthRejects ==
    (guardOut # <<>> /\ Len(Chars(inText)) > MAX_QUERY_LEN) => guardOut = <<TRUE, "length">>

\* C1 witness: a text over the limit that carries an override phrase and a flooded word
\* has been rejected for its length.
C1_Witness ==
    /\ guardOut = <<TRUE, "length">>
    /\ Len(Chars(inText)) > MAX_QUERY_LEN
    /\ inText.phrase # 0
    /\ inText.reps > MAX_WORD_REPS

\* C2 as stated: every text that carries an override phrase, in any letter case, is
\* rejected with reason "pattern".
C2_PatternAlways ==
    (guardOut # <<>> /\ inText.phrase # 0) => guardOut = <<TRUE, "pattern">>

\* C2 as amended: every text of at most MAX_QUERY_LEN characters that carries an override
\* phrase as whitespace-delimited words, in any letter case, is rejected with reason "pattern".
C2_PatternRejects ==
    (guardOut # <<>> /\ inText.phrase # 0 /\ Len(Chars(inText)) <= MAX_QUERY_LEN)
        => guardOut = <<TRUE, "pattern">>

\* C2 witness: a phrase written in mixed letter case, in a text of exactly MAX_QUERY_LEN
\* characters, has been rejected with reason "pattern".
C2_Witness ==
    /\ guardOut = <<TRUE, "pattern">>
    /\ inText.phrase # 0
    /\ Styles[inText.style].cas = "mixed"
    /\ Len(Chars(inText)) = MAX_QUERY_LEN

\* C3: where neither the length nor the pattern check fires, a text one of whose
\* lowercased words occurs more than MAX_WORD_REPS times is rejected with reason
\* "repetition", and a text whose most frequent word occurs exactly MAX_WORD_REPS times is
\* not rejected; the empty string is not rejected.
C3_Repetition ==
    guardOut # <<>> =>
        LET quiet == Len(Chars(inText)) <= MAX_QUERY_LEN /\ inText.phrase = 0
            n     == DescMaxCount(inText)
        IN  /\ (quiet /\ n > MAX_WORD_REPS) => guardOut = <<TRUE, "repetition">>
            /\ (quiet /\ n = MAX_WORD_REPS) => guardOut = <<FALSE, "">>
            /\ Chars(inText) = <<>> => guardOut = <<FALSE, "">>

\* C3 witness: a word repeated exactly MAX_WORD_REPS times in alternating letter case,
\* in a text the other two checks pass, has not been rejected.
C3_Witness ==
    /\ guardOut = <<FALSE, "">>
    /\ inText.phrase = 0
    /\ inText.reps = MAX_WORD_REPS
    /\ Styles[inText.style].cas # "asis"
    /\ DescMaxCount(inText) = MAX_WORD_REPS

\* C7: is_followup is true exactly when a prior retrieval context exists and the
\* utterance has strictly fewer than FOLLOWUP_WORD_THRESHOLD whitespace-delimited words.
C7_Followup ==
    followOut # <<>> =>
        followOut[1] = (last_context # <<>>
                          /\ Len(DescTokens(inText)) < FOLLOWUP_WORD_THRESHOLD)

\* C7 witness: with a prior context, an utterance of exactly FOLLOWUP_WORD_THRESHOLD words
\* has been found not to be a follow-up.
C7_Witness ==
    /\ followOut = <<FALSE>>
    /\ last_context # <<>>
    /\ Len(DescTokens(inText)) = FOLLOWUP_WORD_THRESHOLD

-----------------------------------------------------------------------------
(* Claims about the filter compiler (SpecFilter) *)

\* the clauses a filter joins: the arguments of $and, the filter itself, or none
TopClauses(w) ==
    IF w.op = "$and" THEN w.args ELSE IF w.op = "None" THEN <<>> ELSE <<w>>

\* a clause that constrains the field f: a leaf on f, or a disjunction of equalities on f
OnField(c, f) ==
    IF c.op = "$or"
    THEN \A i \in 1..Len(c.args) : c.args[i].field = f /\ c.args[i].op = "$eq"
    ELSE c.field = f

CountOn(cs, f) == Cardinality({i \in 1..Len(cs) : OnField(cs[i], f)})

\* the credit range is narrower than the full bounds of the slider
Narrowed == eap_min > EAP_SLIDER_MIN \/ eap_max < EAP_SLIDER_MAX

ActiveCount ==
    (IF _semester_val # <<>> THEN 1 ELSE 0) + (IF _teach_lang_val # <<>> THEN 1 ELSE 0)
      + (IF _level_val # <<>> THEN 1 ELSE 0) + (IF Narrowed THEN 2 ELSE 0)

\* C5: the compiled filter joins exactly the active constraints: one clause per selected
\* facet, and the pair of range clauses (>= lo, <= hi) only when the range is narrower than
\* the full bounds; nothing active gives no filter (None), one clause is returned as it
\* is, several are wrapped in one $and.
C5_WhereFilter ==
    whereOut # NotRun =>
        LET cs == TopClauses(whereOut)
        IN  /\ Len(cs) = ActiveCount
            /\ CountOn(cs, "semester") = (IF _semester_val # <<>> THEN 1 ELSE 0)
            /\ _semester_val # <<>> => Leaf("semester", "$eq", _semester_val) \in Range(cs)
            /\ CountOn(cs, "study_languages_en") = (IF _teach_lang_val # <<>> THEN 1 ELSE 0)
            /\ CountOn(cs, "study_levels_en") = (IF _level_val # <<>> THEN 1 ELSE 0)
            /\ CountOn(cs, "eap") = (IF Narrowed THEN 2 ELSE 0)
            /\ Narrowed => /\ Leaf("eap", "$gte", str_float(eap_min)) \in Range(cs)
                           /\ Leaf("eap", "$lte", str_float(eap_max)) \in Range(cs)
            /\ (whereOut = NoFilter) <=> (ActiveCount = 0)
            /\ (whereOut.op = "$and") <=> (ActiveCount > 1)

\* C5 witness: with one facet selected and the full credit range, the filter is that
\* facet's clause, without a wrapper.
C5_Witness ==
    /\ whereOut = Leaf("semester", "$eq", _semester_val)
    /\ _semester_val # <<>>
    /\ _teach_lang_val = <<>>
    /\ _level_val = <<>>
    /\ ~Narrowed

\* x is one of the components of the comma-joined value v
IsComponent(v, x) == Contains(<<","," ">> \o v \o <<","," ">>, <<","," ">> \o x \o <<","," ">>)

LangRecord(v) == [study_languages_en |-> v]

\* the strings of end-to-end scenario C
ScenarioC == {<<"E","n","g","l","i","s","h">>, <<"E","n","g","l","i","s","h",","," ","E","s","t","o","n","i","a","n">>, <<"E","s","t","o","n","i","a","n">>}

\* stored values a clause is tried on: the enumeration, and strings that are not in it
LangProbes ==
    Range(_ALL_LANG_VALUES) \cup {<<"R","u","s","s","i","a","n",","," ","E","s","t","o","n","i","a","n">>, <<"O","l","d"," ","E","n","g","l","i","s","h">>, <<"E","n","g","l","i","s","h","m","a","n">>, <<>>}

\* C6: the clause compiled for a selectable teaching language X matches exactly the strings
\* of the language enumeration that have X as a comma-separated component; for "English",
\* of "English", "English, Estonian" and "Estonian" it matches the first two only.
C6_LangClause ==
    langOut # NotRun =>
        /\ \A v \in LangProbes :
               MatchesRecord(langOut, LangRecord(v))
                   <=> (v \in Range(_ALL_LANG_VALUES) /\ IsComponent(v, _teach_lang_val))
        /\ _teach_lang_val = <<"E","n","g","l","i","s","h">> =>
               {v \in ScenarioC : MatchesRecord(langOut, LangRecord(v))}
                   = {<<"E","n","g","l","i","s","h">>, <<"E","n","g","l","i","s","h",","," ","E","s","t","o","n","i","a","n">>}

\* C6 witness: the clause for "English" matches the value "Estonian, English", where
\* English is the second component.
C6_Witness ==
    /\ langOut # NotRun
    /\ _teach_lang_val = <<"E","n","g","l","i","s","h">>
    /\ MatchesRecord(langOut, LangRecord(<<"E","s","t","o","n","i","a","n",","," ","E","n","g","l","i","s","h">>))
    /\ ~MatchesRecord(langOut, LangRecord(<<"E","s","t","o","n","i","a","n">>))

-----------------------------------------------------------------------------
(* Claims about the card and context builders (SpecCards) *)

\* the whole percentage the score 1 - distance is shown as
ShownScore(dist) == percent0(DistUnit - dist)

\* C9: the cards and the context block list the records in the backend's order: the i-th
\* hit gets rank i (entry number i) and shows the score 1 - distance; distances 0.1 .. 0.5
\* give ranks 1..5 with scores 0.9, 0.8, 0.7, 0.6, 0.5 (shown as 90% .. 50%).
C9_BackendOrder ==
    /\ cardsOut # <<>> =>
        LET cards == cardsOut[1]
        IN  /\ Len(cards) = Len(hitsIn)
            /\ \A i \in 1..Len(hitsIn) :
                /\ cards[i].rank = i
                /\ cards[i].code = hitsIn[i].meta.code
                /\ cards[i].percent = ShownScore(hitsIn[i].dist)
            /\ hitsIn = ScenarioA =>
                /\ [i \in 1..5 |-> cards[i].rank] = <<1, 2, 3, 4, 5>>
                /\ [i \in 1..5 |-> cards[i].percent] = <<90, 80, 70, 60, 50>>
    /\ contextOut # <<>> =>
        LET lines == contextOut[1]
        IN  /\ Len(lines) = Len(hitsIn)
            /\ \A i \in 1..Len(hitsIn) :
                /\ lines[i].i = i
                /\ lines[i].code = hitsIn[i].meta.code

\* C9 witness: a hit list whose second hit is closer than its first has been rendered, and
\* the farther hit holds rank 1 and entry 1.
C9_Witness ==
    /\ cardsOut # <<>>
    /\ contextOut # <<>>
    /\ Len(hitsIn) >= 2
    /\ hitsIn[2].dist < hitsIn[1].dist
    /\ hitsIn[2].meta.code # hitsIn[1].meta.code
    /\ cardsOut[1][1].code = hitsIn[1].meta.code
    /\ cardsOut[1][1].percent = ShownScore(hitsIn[1].dist)
    /\ contextOut[1][1].code = hitsIn[1].meta.code

-----------------------------------------------------------------------------
(* Claims about the chat turn (Spec) *)

Last(s) == s[Len(s)]

Called(name) == \E i \in 1..Len(trace) : trace[i] = name

\* the utterances the guard rejects
FlaggedPrompts == {p \in Prompts : is_jailbreak(p)[1]}

\* C4: in every turn the guard runs first and once, before any key validation, vector
\* search or completion call; a turn whose utterance it rejects makes none of those calls
\* and ends with the decline message appended after the utterance.
C4_GuardFirst ==
    /\ trace # <<>> => trace[1] = "is_jailbreak"
    /\ \A i \in 2..Len(trace) : trace[i] # "is_jailbreak"
    /\ pc \notin {"idle", "guard"} => prompt \notin FlaggedPrompts
    /\ (trace # <<>> /\ prompt \in FlaggedPrompts) =>
        /\ pc = "idle"
        /\ trace = <<"is_jailbreak">>
        /\ Last(messages) = Msg("assistant", Fixed("decline"))
        /\ messages[Len(messages) - 1] = Msg("user", Plain(prompt))

\* C4 witness: with a key in the sidebar and a context cached, an override attempt has
\* been declined.
C4_Witness ==
    /\ pc = "idle"
    /\ trace = <<"is_jailbreak">>
    /\ prompt \in FlaggedPrompts
    /\ api_key # <<>>
    /\ last_context # <<>>
    /\ Last(messages) = Msg("assistant", Fixed("decline"))

\* a step of a running turn that is not in fresh-search mode, the submission included
NonSearchStep ==
    /\ pc # "idle" \/ pc' # "idle"
    /\ do_search # <<TRUE>>
    /\ do_search' # <<TRUE>>

C10_CompletionOnlyWithContext ==
    /\ Called("completions.create") =>
           \/ do_search = <<FALSE>>
           \/ do_search = <<TRUE>> /\ results # <<>> /\ search_err = <<>>
    /\ search_err # <<>> =>
        /\ pc = "idle"
        /\ ~Called("completions.create")
        /\ Last(messages).content.tpl = "Search failed: {}"
    /\ (Called("collection.query") /\ search_err = <<>> /\ results = <<>>) =>
        /\ pc = "idle"
        /\ ~Called("completions.create")
        /\ Last(messages) = Msg("assistant", Fixed("no_courses_found"))

\* the terminal status the error signal stands for: the HTTP status of the response
StatusOf(e) ==
    IF e.status_code = 401 THEN "authFailed"
    ELSE IF e.status_code = 429 THEN "rateLimited"
    ELSE "otherError"

\* the reply that reports a terminal status to the user
ReplyOf(e) ==
    IF StatusOf(e) = "authFailed" THEN Fixed("llm_key_invalid")
    ELSE IF StatusOf(e) = "rateLimited" THEN Fixed("llm_rate_limit")
    ELSE Fmt("LLM request failed: {}", str(e))

\* C11 as stated: a completion failure is reported by the class of its error signal: a 401
\* as authFailed, with the cached validity flag set to not valid; a 429 as rateLimited;
\* any other error as otherError.
C11_ClassifiedBySignal ==
    exc # <<>> =>
        /\ pc = "idle"
        /\ Last(messages) = Msg("assistant", ReplyOf(exc[1]))
        /\ StatusOf(exc[1]) = "authFailed" => api_key_valid = "False"

\* the reply text the stream has delivered so far
Received == Plain(Join(collected_chunks, <<>>))

\* C12 as stated: when the completion stream fails after fragments were received, the
\* output tokens added to the session are those of the text received before the failure,
\* and the text received is kept as the turn's reply.
C12_PartialReplyKept ==
    [][(pc = "stream" /\ collected_chunks # <<>> /\ exc' # <<>>) =>
          /\ total_out' = total_out + count_tokens(Received)
          /\ Last(messages') = Msg("assistant", Received)]_vars

\* the step in which validate_api_key is called
ValidationStep == pc = "validate" /\ pc' = "keycheck"

\* C13 as stated: validate_api_key is called at most once per credential fingerprint: a
\* fingerprint validated earlier in the session is validated again only after an
\* authFailed status was reported for it.
C13_ValidatedOnce ==
    [][ValidationStep => last8(api_key) \notin validated]_vars

\* a run between turns that leaves the key as it is: the "Clear chat" button
ClearStep == pc = "idle" /\ pc' = "idle" /\ api_key' = api_key

\* C14: a clear resets the conversation in one step: afterwards the history holds only the
\* welcome message, last_context and last_cards_html are empty and both token counters are
\* 0; the first utterance of a history is never a follow-up, whatever its length.
C14_ClearResets ==
    /\ [][ClearStep =>
            /\ messages' = <<WelcomeMsg>>
            /\ last_context' = <<>>
            /\ last_cards_html' = <<>>
            /\ total_in' = 0
            /\ total_out' = 0]_vars
    /\ []((Len(messages) = 2 /\ do_search # <<>>) => do_search = <<TRUE>>)

\* C14 witness: after a clear (the key in the sidebar was validated in an earlier turn, and
\* the history holds one utterance), the one-word utterance "yes" starts a fresh search.
C14_Witness ==
    /\ Len(messages) = 2
    /\ prompt = <<"y","e","s">>
    /\ do_search = <<TRUE>>
    /\ api_key_valid = "True"
    /\ ~Called("validate_api_key")
    /\ last_context = <<>>

\* C15 as stated: both token counters are non-negative integers and no step of the session
\* makes either of them smaller.
C15_CountersMonotone ==
    /\ [](total_in \in Nat /\ total_out \in Nat)
    /\ [][total_in' >= total_in /\ total_out' >= total_out]_vars

\* C15, amended: both token counters are non-negative integers; every step other than a
\* clear leaves each of them equal or larger, and a clear sets both to 0.
C15_CountersMonotoneUntilClear ==
    /\ [](total_in \in Nat /\ total_out \in Nat)
    /\ [][IF ClearStep
          THEN total_in' = 0 /\ total_out' = 0
          ELSE total_in' >= total_in /\ total_out' >= total_out]_vars

\* C15 witness: a second completion has been added to counters that the first one had
\* already raised.
C15_Witness ==
    /\ pc = "idle"
    /\ Called("completions.create")
    /\ input_token_estimate > 0
    /\ total_in > input_token_estimate
    /\ total_out > count_tokens(Last(messages).content)

\* C16 as stated: whatever the earlier turns ended in, a turn with a safe utterance and a
\* key the backend accepts can pass the key gate and go on to the search and the
\* completion call: at the gate either the key is about to be validated or its cached
\* validity is True.
C16_SessionStaysUsable ==
    (pc = "keygate" /\ api_key \in AcceptedKeys) =>
        (last8(api_key) # api_key_tested \/ api_key_valid = "True")


-----------------------------------------------------------------------------
(* Claims about the cost estimate *)

\* C17: estimate_cost(in, out) is in x 0.10 / 1,000,000 + out x 0.20 / 1,000,000 dollars,
\* that is in x 10 + out x 20 hundred-millionths of a dollar; for 1000 input and 2000
\* output tokens it is 0.0005 USD (5 ten-thousandths of a dollar).
C17_EstimateCost ==
    costOut # <<>> =>
        /\ costOut[1] = total_in * 10 + total_out * 20
        /\ CostUnit = 100000000
        /\ (total_in = 1000 /\ total_out = 2000) => costOut[1] * 10000 = 5 * CostUnit

\* C17 witness: the cost of 1000 input and 2000 output tokens has been computed.
C17_Witness ==
    total_in = 1000 /\ total_out = 2000 /\ costOut = <<50000>>


-----------------------------------------------------------------------------
(* Claims about the facet clause compilers *)

LevelRecord(v) == [study_levels_en |-> v]

\* stored values a level clause is tried on: the enumeration, and strings that are not in it
LevelProbes ==
    Range(_ALL_LEVEL_VALUES) \cup {<<"d","o","c","t","o","r","a","l"," ","s","t","u","d","i","e","s",","," ","m","a","s","t","e","r","'","s"," ","s","t","u","d","i","e","s">>, <<"s","t","u","d","i","e","s">>, <<>>}

\* C18: the clause compiled for a selectable study level X matches exactly the strings of
\* the study-level enumeration that have X as a comma-separated component, and no
\* composite string in which X is not one of the components.
C18_LevelClause ==
    (levelOut # NotRun /\ targetIn \in LevelOptions) =>
        \A v \in LevelProbes :
            MatchesRecord(levelOut, LevelRecord(v))
                <=> (v \in Range(_ALL_LEVEL_VALUES) /\ IsComponent(v, targetIn))

\* the component value has no matching string in either enumeration
NoLangMatch  == ValuesContaining(_ALL_LANG_VALUES, targetIn) = <<>>
NoLevelMatch == ValuesContaining(_ALL_LEVEL_VALUES, targetIn) = <<>>

-----------------------------------------------------------------------------
(* Claims about the credit range *)

\* the metadata of a course of c credits: safe_str of the eap column
EapRecord(c) == [eap |-> str_float(c)]

\* the clauses of a where-document that constrain the credits
RangePart(w) ==
    LET OnEap(c) == c.op \in {"$gte", "$lte"} /\ c.field = "eap"
    IN  SelectSeq(TopClauses(w), OnEap)

InRangePart(w, c) ==
    \A i \in 1..Len(RangePart(w)) : MatchesRecord(RangePart(w)[i], EapRecord(c))

\* C20: with a narrowed credit range [lo, hi] a record of c credits satisfies the range
\* part of the compiled filter if and only if lo <= c <= hi as numbers, both ends
\* included; 10 credits satisfy the range [3, 12].
C20_NumericRange ==
    (whereOut # NotRun /\ Narrowed) =>
        /\ Len(RangePart(whereOut)) = 2
        /\ \A c \in EAP_SLIDER_MIN..EAP_SLIDER_MAX :
               InRangePart(whereOut, c) <=> (eap_min <= c /\ c <= eap_max)


-----------------------------------------------------------------------------
(* Claims about the description snippet *)

\* the first non-empty text of a list of sources, "" when all are empty
RECURSIVE FirstNonEmpty(_)
FirstNonEmpty(srcs) ==
    IF srcs = <<>> THEN <<>>
    ELSE IF srcs[1] # <<>> THEN srcs[1] ELSE FirstNonEmpty(Tail(srcs))

\* a description field as a source: the value "nan" is no description
Described(v) == IF v = <<"n","a","n">> THEN <<>> ELSE v

-----------------------------------------------------------------------------
(* Claims about the outbound message list *)

\* the completion call of this turn is prepared or under way
Outbound == pc \in {"create", "stream"}

\* C22: the message list sent to the completion backend is the system prompt, then every
\* message of the history before the current utterance, in order, then one enriched user
\* message with the utterance and the context block: the system message is first and
\* occurs once, the enriched message is last, and the raw utterance that was already
\* appended to the history is not sent as a message of its own.
C22_OutboundList ==
    Outbound =>
        LET n == Len(llm_messages)
        IN  /\ n = Len(messages) + 1
            /\ llm_messages[1] = Msg("system", SYSTEM_PROMPT)
            /\ \A i \in 2..n : llm_messages[i].role # "system"
            /\ \A i \in 1..(Len(messages) - 1) : llm_messages[i + 1] = messages[i]
            /\ Last(messages) = Msg("user", Plain(prompt))
            /\ llm_messages[n].role = "user"
            /\ llm_messages[n].content.text = strip(prompt)
            /\ llm_messages[n].content.ctx = last_context
            /\ llm_messages[n].content.tpl \in {"search_prompt", "followup_prompt"}

\* C22 witness: in a second turn the list holds the system prompt, the welcome message,
\* the first turn's two messages and the enriched message.
C22_Witness ==
    /\ pc = "create"
    /\ Len(messages) = 4
    /\ Len(llm_messages) = 5
    /\ llm_messages[3].role = "user"
    /\ llm_messages[4].role = "assistant"
    /\ llm_messages[5].content.ctx # <<>>


-----------------------------------------------------------------------------
(* Claims about the commit of a turn *)

\* the turn has reached the search result that leads to the completion call, and the
\* stream of that call has not terminated
BeforeStreamEnd == pc \in {"assemble", "create", "stream"}

\* the history as it was before the turn: what the outbound list carries between the
\* system prompt and the enriched message
PreTurnHistory == SubSeq(llm_messages, 2, Len(llm_messages) - 1)

\* C23: within a turn nothing of the conversation state (history, retrieval context, cards,
\* token counters) is committed before the completion stream has terminated: a step that
\* leaves the turn before the end of its stream changes none of them, and while fragments
\* are streamed the history is the one from before the turn.
C23_CommitAfterStream ==
    [][BeforeStreamEnd' =>
          /\ last_context' = last_context
          /\ last_cards_html' = last_cards_html
          /\ total_in' = total_in
          /\ total_out' = total_out
          /\ (pc' = "stream" /\ collected_chunks' # <<>>) => messages' = PreTurnHistory']_vars


-----------------------------------------------------------------------------
(* Claims about the shape of the history *)

\* a script run is handling a chat turn
InTurn == pc # "idle"

\* the role the i-th message of an alternating history has
RoleAt(i) == IF i = 1 \/ i % 2 = 1 THEN "assistant" ELSE "user"

-----------------------------------------------------------------------------
(* Claims about turns that end before the completion call *)

\* the turn has not got past the search
BeforeCompletion == pc \in {"guard", "keygate", "validate", "keycheck", "rag", "query"}

\* a step of a turn that does not lead towards the completion call: the submission, a step
\* of the guard, the key gate or the search, or one of the five early ends
EarlyStep == (pc = "idle" /\ pc' = "guard") \/ (BeforeCompletion /\ pc' # "assemble")

\* C25: a turn that ends before the completion call (declined by the guard, no key, invalid
\* key, search error, no hits) leaves the cached context block, the cached cards and both
\* token counters as they were: none of its steps changes them, so a failed or empty
\* search never overwrites or clears the context of an earlier search with hits.
C25_EarlyEndKeepsContext ==
    [][EarlyStep => /\ last_context' = last_context
                    /\ last_cards_html' = last_cards_html
                    /\ total_in' = total_in
                    /\ total_out' = total_out]_vars

\* C25 witness: a search without hits has ended a turn, and the context, the cards and the
\* counters of the earlier turn's search are still there.
C25_Witness ==
    /\ pc = "idle"
    /\ Len(messages) = 5
    /\ Last(messages) = Msg("assistant", Fixed("no_courses_found"))
    /\ last_context # <<>>
    /\ last_cards_html # <<>>
    /\ total_in > 0


-----------------------------------------------------------------------------
(* Claims about the cached context and cards *)

\* a fresh search has returned at least one hit since the session started or was cleared
SearchedWithHits == searched_context # <<>>

\* C26: at every turn boundary the cached context block is empty exactly when the cached
\* cards are, both are non-empty exactly when a fresh search has returned at least one hit
\* since the session started or was last cleared, and when non-empty both were built from
\* the hits of one and the same search.
C26_ContextAndCardsTogether ==
    ~InTurn =>
        /\ (last_context = <<>>) <=> (last_cards_html = <<>>)
        /\ (last_context # <<>>) <=> SearchedWithHits
        /\ last_context # <<>> =>
               \E hits \in SessionResults \ {<<>>} :
                   /\ last_context = build_context(hits)
                   /\ last_cards_html = render_course_cards(hits)

\* C26 witness: a turn boundary after the second turn of a session, whose search returned
\* the hits of HitsB: the cached context and the cached cards are both those of HitsB.
C26_Witness ==
    /\ pc = "idle"
    /\ Len(messages) = 5
    /\ Called("collection.query")
    /\ results = HitsB
    /\ last_context = build_context(HitsB)
    /\ last_cards_html = render_course_cards(HitsB)


-----------------------------------------------------------------------------
(* Claims about the token counters of a turn *)

\* the step that ends a turn which reached the completion call, with or without an error
CompletionEnds == pc \in {"create", "stream"} /\ pc' = "idle"

\* C27: a turn that reaches the completion call, whether the call succeeds or fails, adds to
\* the input counter, once, the token counts of all messages of the outbound list, and to
\* the output counter, once, the token count of the turn's final reply text, counted on the
\* text and not on the fragments; no other step of a turn changes the counters.
C27_TokensOncePerTurn ==
    [][/\ CompletionEnds =>
              /\ total_in' = total_in + SumTokens(llm_messages)
              /\ total_out' = total_out + count_tokens(Last(messages').content)
       /\ ((InTurn \/ InTurn') /\ ~CompletionEnds) =>
              /\ total_in' = total_in
              /\ total_out' = total_out]_vars

\* C27 witness: the first completion of a session has ended without error after a fragment
\* of two characters: the output counter is the token count of the reply, more than the
\* number of fragments, and the input counter is the token count of the outbound list.
C27_Witness ==
    /\ pc = "idle"
    /\ Len(messages) = 3
    /\ exc = <<>>
    /\ Len(collected_chunks) = 1
    /\ Last(messages).content = Plain(collected_chunks[1])
    /\ total_out = count_tokens(Last(messages).content)
    /\ total_out > Len(collected_chunks)
    /\ total_in = SumTokens(llm_messages)
    /\ total_in > 0

=============================================================================
